---- MODULE Spec2Model ----
(***************************************************************************)
(* Deferred pointer-event queue of BaseCameraPointersInput                 *)
(* (ring-buffer-with-coalescing variant, src/unnamed/part_000).            *)
(*                                                                         *)
(* JavaScript objects are modelled as functions from field names to        *)
(* values; the empty object literal {} is the function with empty domain.  *)
(* References into a ring buffer's container are modelled as positions:    *)
(* `pushed` is the 1-based position of the slot handed out by the last     *)
(* push() (0 when it refers to no slot of the container).                  *)
(***************************************************************************)
EXTENDS Integers, Sequences, FiniteSets, TLC

VARIABLES
    rb,        \* a stand-alone _EventRingBuffer driven by push()/pop()
    fifo,      \* history: labels pushed to rb and not yet popped or evicted
    lastPop,   \* history: what the last rb.pop() returned
    nPush,     \* history: number of rb.push() calls
    nPop,      \* history: number of rb.pop() calls
    evicted,   \* history: rb.push() had to drop an entry at least once
    \* --- one BaseCameraPointersInput instance, attached ---
    bufs,      \* the six ring buffers: _allEvents and the five _events* buffers
    heap,      \* the PointerTouch objects created so far (mutated in place)
    _pointA,   \* Null or a reference [ref |-> i] to heap[i]
    _pointB,
    previousPinchSquaredDistance,     \* closure variables of attachControl()
    previousMultiTouchPanPosition,
    _previousPinchSquaredDistance,    \* fields of the input
    _previousMultiTouchPanPosition,
    _modifiers,        \* _altKey, _ctrlKey, _metaKey, _shiftKey, _buttonsPressed
    _defferCallback,
    _observer, \* Null after detachControl()
    twin,      \* a second input with _defferCallback = false that receives
               \* the same events (the "immediate" camera of the tests)
    calls,     \* history: handler and observer calls since the start of the
               \*          last checkInputs()
    captured,  \* history: every _addEvents*() call so far, in order
    frameStart,      \* history: Len(captured) when checkInputs() last returned
    lastFrameStart,  \* history: frameStart before the last checkInputs()
    nEvents,   \* history: number of events the host delivered
    nFrames,   \* history: number of checkInputs() calls
    delivered, \* history: the handler calls of all checkInputs() calls so far
    skipped,   \* history: the iterations of the last checkInputs() that ended
               \*          in `continue`
    overflowed,  \* history: a push() of the input had to drop an entry
    detached,  \* history: Len(captured) at every detachControl() so far
    lastInput, \* history: the event the host delivered last and the engine
               \*          it was delivered on
    noticed,   \* history: for every _addEvents*() call so far, the modifier
               \*          keys and buttons of the event that caused it
    scenario   \* which host drives the input (see Init)

inputVars == <<bufs, heap, _pointA, _pointB, previousPinchSquaredDistance,
               previousMultiTouchPanPosition, _previousPinchSquaredDistance,
               _previousMultiTouchPanPosition, _modifiers, _defferCallback,
               _observer, twin, calls, captured, frameStart, lastFrameStart,
               nEvents, nFrames, delivered, skipped, overflowed, detached,
               lastInput, noticed, scenario>>

ringVars == <<rb, fifo, lastPop, nPush, nPop, evicted>>

---------------------------------------------------------------------------
(* Bounds of the exploration.                                              *)

MaxRingPush == 52      \* rb.push() calls of a run that pushes, then pops
MaxMixedPush == 7      \* rb.push() calls of a run that interleaves push and pop
MaxEmptyPop == 2       \* rb.pop() calls beyond the number of push() calls
MaxEvents == 4         \* events delivered by the free host
MaxFloodEvents == 72   \* events delivered by the stalled-renderer host
MaxPinchEvents == 55   \* events delivered by the stalled-renderer pinch host
MaxResetEvents == 3    \* events delivered by the host that resets the input
MaxDetach == 1         \* detachControl() calls
MaxFrames == 2         \* checkInputs() calls
MaxContactEvents == 5  \* events delivered by the host of the extra contacts

---------------------------------------------------------------------------
(* JavaScript values.                                                      *)

\* undefined and null are objects of their own, so that they can be compared
\* with any other object.
Undefined == [undefined |-> TRUE]
Null == [null |-> TRUE]

EmptyObj == [f \in {} |-> 0]

SetField(o, f, v) == [x \in (DOMAIN o) \cup {f} |-> IF x = f THEN v ELSE o[x]]

HasField(o, f) == f \in DOMAIN o

InsertAt(s, i, e) == SubSeq(s, 1, i) \o <<e>> \o SubSeq(s, i + 1, Len(s))

---------------------------------------------------------------------------
(* class _EventRingBuffer<T>                                               *)

_maxSize == 50

NewRingBuffer ==
    [head |-> 0, tail |-> 0, length |-> 0, container |-> <<>>, pushed |-> 0]

_wrapPointers_headOnly(b) ==
    [b EXCEPT !.head = IF b.head >= Len(b.container) THEN 0 ELSE b.head]

_wrapPointers(b) ==
    [b EXCEPT !.head = IF b.head >= Len(b.container) THEN 0 ELSE b.head,
              !.tail = IF b.tail >= Len(b.container) THEN 0 ELSE b.tail]

pop_unguarded(b) ==
    LET w == _wrapPointers(b)
    IN  [w EXCEPT !.tail = w.tail + 1, !.length = w.length - 1]

\* The buffer after pop().
pop(b) ==
    IF b.length <= 0
    THEN b
    ELSE LET w == _wrapPointers(b)
         IN  [w EXCEPT !.tail = w.tail + 1, !.length = w.length - 1]

\* The value pop() returns.
popped(b) ==
    IF b.length <= 0
    THEN Undefined
    ELSE LET w == _wrapPointers(b)
         IN  IF w.tail + 1 \in DOMAIN w.container
             THEN w.container[w.tail + 1]
             ELSE Undefined

\* push() variants that handle a full buffer differently.
push_dropNewest(b) ==
    IF b.length >= _maxSize
    THEN b
    ELSE LET w == _wrapPointers(b)
         IN  IF w.head = w.tail /\ (w.length > 0 \/ Len(w.container) = 0)
             THEN [w EXCEPT !.container = InsertAt(w.container, w.head, EmptyObj),
                            !.pushed = w.head + 1,
                            !.length = w.length + 1,
                            !.head = w.head + 1,
                            !.tail = w.tail + 1]
             ELSE [w EXCEPT !.pushed = w.head + 1,
                            !.head = w.head + 1,
                            !.length = w.length + 1]

push_lateEvict(b) ==
    LET d == IF b.length > _maxSize THEN pop(b) ELSE b
        w == _wrapPointers(d)
    IN  IF w.head = w.tail /\ (w.length > 0 \/ Len(w.container) = 0)
        THEN [w EXCEPT !.container = InsertAt(w.container, w.head, EmptyObj),
                       !.pushed = w.head + 1,
                       !.length = w.length + 1,
                       !.head = w.head + 1,
                       !.tail = w.tail + 1]
        ELSE [w EXCEPT !.pushed = w.head + 1,
                       !.head = w.head + 1,
                       !.length = w.length + 1]

\* push() that splices whenever head meets tail, also in an empty ring.
push_spliceWhenEqual(b) ==
    LET d == IF b.length >= _maxSize THEN pop(b) ELSE b
        w == _wrapPointers(d)
    IN  IF w.head = w.tail
        THEN [w EXCEPT !.container = InsertAt(w.container, w.head, EmptyObj),
                       !.pushed = w.head + 1,
                       !.length = w.length + 1,
                       !.head = w.head + 1,
                       !.tail = w.tail + 1]
        ELSE [w EXCEPT !.pushed = w.head + 1,
                       !.head = w.head + 1,
                       !.length = w.length + 1]

\* push() whose splice advances head only.
push_spliceKeepsTail(b) ==
    LET d == IF b.length >= _maxSize THEN pop(b) ELSE b
        w == _wrapPointers(d)
    IN  IF w.head = w.tail /\ (w.length > 0 \/ Len(w.container) = 0)
        THEN [w EXCEPT !.container = InsertAt(w.container, w.head, EmptyObj),
                       !.pushed = w.head + 1,
                       !.length = w.length + 1,
                       !.head = w.head + 1]
        ELSE [w EXCEPT !.pushed = w.head + 1,
                       !.head = w.head + 1,
                       !.length = w.length + 1]

\* push() that allocates a slot for empty storage only.
push_growOnlyWhenEmpty(b) ==
    LET d == IF b.length >= _maxSize THEN pop(b) ELSE b
        w == _wrapPointers(d)
    IN  IF Len(w.container) = 0
        THEN [w EXCEPT !.container = InsertAt(w.container, w.head, EmptyObj),
                       !.pushed = w.head + 1,
                       !.length = w.length + 1,
                       !.head = w.head + 1,
                       !.tail = w.tail + 1]
        ELSE [w EXCEPT !.pushed = w.head + 1,
                       !.head = w.head + 1,
                       !.length = w.length + 1]

push(b) ==
    LET d == IF b.length >= _maxSize THEN pop(b) ELSE b
        w == _wrapPointers(d)
    IN  IF w.head = w.tail /\ (w.length > 0 \/ Len(w.container) = 0)
        THEN [w EXCEPT !.container = InsertAt(w.container, w.head, EmptyObj),
                       !.pushed = w.head + 1,
                       !.length = w.length + 1,
                       !.head = w.head + 1,
                       !.tail = w.tail + 1]
        ELSE [w EXCEPT !.pushed = w.head + 1,
                       !.head = w.head + 1,
                       !.length = w.length + 1]

clear(b) ==
    [head |-> 0, tail |-> 0, length |-> 0, container |-> <<>>, pushed |-> 0]

\* `b.pushed.f = v`
SetPushed(b, f, v) ==
    IF b.pushed \in DOMAIN b.container
    THEN [b EXCEPT !.container[b.pushed] = SetField(@, f, v)]
    ELSE b

\* `b.pushed.f`
GetPushed(b, f) ==
    IF b.pushed \in DOMAIN b.container /\ HasField(b.container[b.pushed], f)
    THEN b.container[b.pushed][f]
    ELSE Undefined

\* The buffer after n successive pop() calls.  Halving, and reading b before
\* going on, keep the evaluation shallow.
RECURSIVE PopN(_, _)
PopN(b, n) ==
    IF n = 0 \/ ~HasField(b, "length") THEN b
    ELSE IF n = 1 THEN pop(b)
    ELSE PopN(PopN(b, n \div 2), n - (n \div 2))

\* The values that successive pop() calls return until the buffer is empty.
PopAll(b) == [i \in 1..b.length |-> popped(PopN(b, i - 1))]

---------------------------------------------------------------------------
(* class BaseCameraPointersInput                                           *)

COALESCE == TRUE
DEFFER_CALLBACK == TRUE

buttons == {0, 1, 2}

\* A reference to one of the ring buffers (IEvent.buffer).
BufRef(name) == [ringBuffer |-> name]

SlotBuffers == {"_eventsButtonDown", "_eventsButtonUp", "_eventsDoubleTap",
                "_eventsTouch", "_eventsMultiTouch"}

RingBuffers == {"_allEvents"} \cup SlotBuffers

\* `o.f`
Field(o, f) == IF HasField(o, f) THEN o[f] ELSE Undefined

\* `point.x` for a reference into the heap.
Deref(h, r) == h[r.ref]

Int32Max == 2147483647

\* `pinchSquaredDistance |= 0`: ToInt32, which maps every integer between
\* -2^31 and 2^31 - 1 to itself; the coordinates of the hosts below keep the
\* squared distance far inside that range (and it is never NaN).
ToInt32(n) == IF n > Int32Max \/ n < 0 - Int32Max THEN 0 ELSE n

\* One entry of `calls`: a handler (obs = FALSE) or an observable notified
\* (obs = TRUE); seq is the position in `captured` of the _addEvents*() call
\* that wrote the payload.
HandlerCall(fn, seq, args) ==
    [fn |-> fn, obs |-> FALSE, seq |-> seq, args |-> args]

ObserverCall(fn, seq, typedEvent) ==
    [fn |-> fn, obs |-> TRUE, seq |-> seq, args |-> <<typedEvent>>]

\* The helpers below work on q = [bufs, calls, captured, _defferCallback],
\* the part of an input's state that the _addEvents*() calls of one
\* _pointerInput() call read and write.
\* `captured` notes, for every _addEvents*() call, its kind, its arguments and
\* merged: whether the call took the coalescing branch.
Record(q, kind, args, merged) ==
    [q EXCEPT !.captured =
        Append(@, [kind |-> kind, args |-> args, merged |-> merged])]

\* this.<name>.push(); this._allEvents.push();
\* this._allEvents.pushed.buffer = this.<name>
PushTag(bs, name) ==
    [bs EXCEPT !["_allEvents"] =
        SetPushed(push(bs["_allEvents"]), "buffer", BufRef(name))]

\* _addEventsButtonDown that also calls the handler at once.
_addEventsButtonDown_eager(q0, event) ==
    LET q == Record(q0, "ButtonDown", <<event>>, FALSE)
        seq == Len(q.captured)
        b1 == [q.bufs EXCEPT !["_eventsButtonDown"] =
                 SetPushed(SetPushed(push(@), "event", event), "seq", seq)]
    IN  [q EXCEPT !.bufs = PushTag(b1, "_eventsButtonDown"),
                  !.calls = Append(@, HandlerCall("onButtonDown", seq, <<event>>))]

_addEventsButtonDown(q0, event) ==
    LET q == Record(q0, "ButtonDown", <<event>>, FALSE)
        seq == Len(q.captured)
    IN  IF ~q0._defferCallback
        THEN [q EXCEPT !.calls = Append(@, HandlerCall("onButtonDown", seq, <<event>>))]
        ELSE LET b1 == [q.bufs EXCEPT !["_eventsButtonDown"] =
                          SetPushed(SetPushed(push(@), "event", event), "seq", seq)]
             IN  [q EXCEPT !.bufs = PushTag(b1, "_eventsButtonDown")]

\* _addEventsButtonUp that stores the payload and forgets the tag.
_addEventsButtonUp_untagged(q0, event) ==
    LET q == Record(q0, "ButtonUp", <<event>>, FALSE)
        seq == Len(q.captured)
    IN  [q EXCEPT !.bufs["_eventsButtonUp"] =
            SetPushed(SetPushed(push(@), "event", event), "seq", seq)]

\* _addEventsButtonUp() that queues the event whatever _defferCallback is.
_addEventsButtonUp_alwaysQueued(q0, event) ==
    LET q == Record(q0, "ButtonUp", <<event>>, FALSE)
        seq == Len(q.captured)
        b1 == [q.bufs EXCEPT !["_eventsButtonUp"] =
                  SetPushed(SetPushed(push(@), "event", event), "seq", seq)]
    IN  [q EXCEPT !.bufs = PushTag(b1, "_eventsButtonUp")]

_addEventsButtonUp(q0, event) ==
    LET q == Record(q0, "ButtonUp", <<event>>, FALSE)
        seq == Len(q.captured)
    IN  IF ~q0._defferCallback
        THEN [q EXCEPT !.calls = Append(@, HandlerCall("onButtonUp", seq, <<event>>))]
        ELSE LET b1 == [q.bufs EXCEPT !["_eventsButtonUp"] =
                          SetPushed(SetPushed(push(@), "event", event), "seq", seq)]
             IN  [q EXCEPT !.bufs = PushTag(b1, "_eventsButtonUp")]

\* _addEventsDoubleTap that pushes the tag and forgets the payload.
_addEventsDoubleTap_tagOnly(q0, eventType) ==
    LET q == Record(q0, "DoubleTap", <<eventType>>, FALSE)
    IN  [q EXCEPT !.bufs = PushTag(q.bufs, "_eventsDoubleTap")]

_addEventsDoubleTap(q0, eventType) ==
    LET q == Record(q0, "DoubleTap", <<eventType>>, FALSE)
        seq == Len(q.captured)
    IN  IF ~q0._defferCallback
        THEN [q EXCEPT !.calls = Append(@, HandlerCall("onDoubleTap", seq, <<eventType>>))]
        ELSE LET b1 == [q.bufs EXCEPT !["_eventsDoubleTap"] =
                          SetPushed(SetPushed(push(@), "type", eventType), "seq", seq)]
             IN  [q EXCEPT !.bufs = PushTag(b1, "_eventsDoubleTap")]

\* The coalescing test without the check that a tag is waiting.
LastTagIs_anyLength(bs, name) ==
    /\ COALESCE
    /\ GetPushed(bs["_allEvents"], "buffer") = BufRef(name)

\* The coalescing test of _addEventsTouch and _addEventsMultiTouch.
LastTagIs(bs, name) ==
    /\ COALESCE
    /\ bs["_allEvents"].length > 0
    /\ GetPushed(bs["_allEvents"], "buffer") = BufRef(name)

\* _addEventsTouch whose coalescing branch keeps the offsets of the last
\* capture only.
_addEventsTouch_lastOnly(q0, point, offsetX, offsetY) ==
    LET merged == q0._defferCallback /\ LastTagIs(q0.bufs, "_eventsTouch")
        q == Record(q0, "Touch", <<point, offsetX, offsetY>>, merged)
        seq == Len(q.captured)
        t == q.bufs["_eventsTouch"]
    IN  IF ~q0._defferCallback
        THEN [q EXCEPT !.calls =
                Append(@, HandlerCall("onTouch", seq, <<point, offsetX, offsetY>>))]
        ELSE IF merged
        THEN [q EXCEPT !.bufs["_eventsTouch"] =
                SetPushed(SetPushed(SetPushed(t,
                    "point", point),
                    "offsetX", offsetX),
                    "offsetY", offsetY)]
        ELSE LET b1 == [q.bufs EXCEPT !["_eventsTouch"] =
                          SetPushed(SetPushed(SetPushed(SetPushed(push(t),
                              "point", point),
                              "offsetX", offsetX),
                              "offsetY", offsetY),
                              "seq", seq)]
             IN  [q EXCEPT !.bufs = PushTag(b1, "_eventsTouch")]

\* _addEventsTouch() that adds up offsetX only when it coalesces.
_addEventsTouch_sumXOnly(q0, point, offsetX, offsetY) ==
    LET merged == q0._defferCallback /\ LastTagIs(q0.bufs, "_eventsTouch")
        q == Record(q0, "Touch", <<point, offsetX, offsetY>>, merged)
        seq == Len(q.captured)
        t == q.bufs["_eventsTouch"]
    IN  IF ~q0._defferCallback
        THEN [q EXCEPT !.calls =
                Append(@, HandlerCall("onTouch", seq, <<point, offsetX, offsetY>>))]
        ELSE IF LastTagIs(q0.bufs, "_eventsTouch")
        THEN [q EXCEPT !.bufs["_eventsTouch"] =
                SetPushed(SetPushed(SetPushed(t,
                    "point", point),
                    "offsetX", GetPushed(t, "offsetX") + offsetX),
                    "offsetY", offsetY)]
        ELSE LET b1 == [q.bufs EXCEPT !["_eventsTouch"] =
                          SetPushed(SetPushed(SetPushed(SetPushed(push(t),
                              "point", point),
                              "offsetX", offsetX),
                              "offsetY", offsetY),
                              "seq", seq)]
             IN  [q EXCEPT !.bufs = PushTag(b1, "_eventsTouch")]

_addEventsTouch(q0, point, offsetX, offsetY) ==
    LET merged == q0._defferCallback /\ LastTagIs(q0.bufs, "_eventsTouch")
        q == Record(q0, "Touch", <<point, offsetX, offsetY>>, merged)
        seq == Len(q.captured)
        t == q.bufs["_eventsTouch"]
    IN  IF ~q0._defferCallback
        THEN [q EXCEPT !.calls =
                Append(@, HandlerCall("onTouch", seq, <<point, offsetX, offsetY>>))]
        ELSE IF LastTagIs(q0.bufs, "_eventsTouch")
        THEN [q EXCEPT !.bufs["_eventsTouch"] =
                SetPushed(SetPushed(SetPushed(t,
                    "point", point),
                    "offsetX", GetPushed(t, "offsetX") + offsetX),
                    "offsetY", GetPushed(t, "offsetY") + offsetY)]
        ELSE LET b1 == [q.bufs EXCEPT !["_eventsTouch"] =
                          SetPushed(SetPushed(SetPushed(SetPushed(push(t),
                              "point", point),
                              "offsetX", offsetX),
                              "offsetY", offsetY),
                              "seq", seq)]
             IN  [q EXCEPT !.bufs = PushTag(b1, "_eventsTouch")]

\* _addEventsMultiTouch whose coalescing branch overwrites the squared
\* distance instead of adding to it.
_addEventsMultiTouch_overwrite(q0, pointA, pointB, prevPinch, pinchSquaredDistance, prevPan, multiTouchPanPosition) ==
    LET args == <<pointA, pointB, prevPinch, pinchSquaredDistance,
                  prevPan, multiTouchPanPosition>>
        merged == q0._defferCallback /\ LastTagIs(q0.bufs, "_eventsMultiTouch")
        q == Record(q0, "MultiTouch", args, merged)
        seq == Len(q.captured)
        m == q.bufs["_eventsMultiTouch"]
    IN  IF merged
        THEN [q EXCEPT !.bufs["_eventsMultiTouch"] =
                SetPushed(SetPushed(SetPushed(SetPushed(m,
                    "pointA", pointA),
                    "pointB", pointB),
                    "pinchSquaredDistance", pinchSquaredDistance),
                    "multiTouchPanPosition", multiTouchPanPosition)]
        ELSE LET b1 == [q.bufs EXCEPT !["_eventsMultiTouch"] =
                          SetPushed(SetPushed(SetPushed(SetPushed(SetPushed(
                          SetPushed(SetPushed(push(m),
                              "pointA", pointA),
                              "pointB", pointB),
                              "previousPinchSquaredDistance",
                                  _previousPinchSquaredDistance),
                              "pinchSquaredDistance", pinchSquaredDistance),
                              "previousMultiTouchPanPosition",
                                  _previousMultiTouchPanPosition),
                              "multiTouchPanPosition", multiTouchPanPosition),
                              "seq", seq)]
             IN  [q EXCEPT !.bufs = PushTag(b1, "_eventsMultiTouch")]

\* _addEventsMultiTouch whose coalescing branch leaves the slot's
\* multiTouchPanPosition as it was.
_addEventsMultiTouch_stalePan(q0, pointA, pointB, prevPinch, pinchSquaredDistance, prevPan, multiTouchPanPosition) ==
    LET args == <<pointA, pointB, prevPinch, pinchSquaredDistance,
                  prevPan, multiTouchPanPosition>>
        merged == q0._defferCallback /\ LastTagIs(q0.bufs, "_eventsMultiTouch")
        q == Record(q0, "MultiTouch", args, merged)
        seq == Len(q.captured)
        m == q.bufs["_eventsMultiTouch"]
    IN  IF ~q0._defferCallback
        THEN [q EXCEPT !.calls = Append(@, HandlerCall("onMultiTouch", seq, args))]
        ELSE IF merged
        THEN [q EXCEPT !.bufs["_eventsMultiTouch"] =
                SetPushed(SetPushed(SetPushed(m,
                    "pointA", pointA),
                    "pointB", pointB),
                    "pinchSquaredDistance",
                        GetPushed(m, "pinchSquaredDistance") + pinchSquaredDistance)]
        ELSE LET b1 == [q.bufs EXCEPT !["_eventsMultiTouch"] =
                          SetPushed(SetPushed(SetPushed(SetPushed(SetPushed(
                          SetPushed(SetPushed(push(m),
                              "pointA", pointA),
                              "pointB", pointB),
                              "previousPinchSquaredDistance",
                                  _previousPinchSquaredDistance),
                              "pinchSquaredDistance", pinchSquaredDistance),
                              "previousMultiTouchPanPosition",
                                  _previousMultiTouchPanPosition),
                              "multiTouchPanPosition", multiTouchPanPosition),
                              "seq", seq)]
             IN  [q EXCEPT !.bufs = PushTag(b1, "_eventsMultiTouch")]

_addEventsMultiTouch(q0, pointA, pointB, prevPinch, pinchSquaredDistance, prevPan, multiTouchPanPosition) ==
    LET args == <<pointA, pointB, prevPinch, pinchSquaredDistance,
                  prevPan, multiTouchPanPosition>>
        merged == q0._defferCallback /\ LastTagIs(q0.bufs, "_eventsMultiTouch")
        q == Record(q0, "MultiTouch", args, merged)
        seq == Len(q.captured)
        m == q.bufs["_eventsMultiTouch"]
    IN  IF ~q0._defferCallback
        THEN [q EXCEPT !.calls = Append(@, HandlerCall("onMultiTouch", seq, args))]
        ELSE IF LastTagIs(q0.bufs, "_eventsMultiTouch")
        THEN [q EXCEPT !.bufs["_eventsMultiTouch"] =
                SetPushed(SetPushed(SetPushed(SetPushed(m,
                    "pointA", pointA),
                    "pointB", pointB),
                    "pinchSquaredDistance",
                        GetPushed(m, "pinchSquaredDistance") + pinchSquaredDistance),
                    "multiTouchPanPosition", multiTouchPanPosition)]
        ELSE LET b1 == [q.bufs EXCEPT !["_eventsMultiTouch"] =
                          SetPushed(SetPushed(SetPushed(SetPushed(SetPushed(
                          SetPushed(SetPushed(push(m),
                              "pointA", pointA),
                              "pointB", pointB),
                              "previousPinchSquaredDistance",
                                  _previousPinchSquaredDistance),
                              "pinchSquaredDistance", pinchSquaredDistance),
                              "previousMultiTouchPanPosition",
                                  _previousMultiTouchPanPosition),
                              "multiTouchPanPosition", multiTouchPanPosition),
                              "seq", seq)]
             IN  [q EXCEPT !.bufs = PushTag(b1, "_eventsMultiTouch")]

\* The loop body with the observers of a Touch notified before onTouch().
Dispatch_observerFirst(d, name, event) ==
    LET seq == Field(event, "seq")
    IN  IF name = "_eventsButtonDown"
        THEN [d EXCEPT !.calls = @ \o
                <<HandlerCall("onButtonDown", seq, <<Field(event, "event")>>),
                  ObserverCall("onButtonDownObservable", seq, event)>>]
        ELSE IF name = "_eventsButtonUp"
        THEN [d EXCEPT !.calls = @ \o
                <<HandlerCall("onButtonUp", seq, <<Field(event, "event")>>),
                  ObserverCall("onButtonUpObservable", seq, event)>>]
        ELSE IF name = "_eventsDoubleTap"
        THEN [d EXCEPT !.calls = @ \o
                <<HandlerCall("onDoubleTap", seq, <<Field(event, "type")>>),
                  ObserverCall("onDoubleTapObservable", seq, event)>>]
        ELSE IF name = "_eventsTouch"
        THEN [d EXCEPT !.calls = @ \o
                <<ObserverCall("onTouchObservable", seq, event),
                  HandlerCall("onTouch", seq,
                      <<Field(event, "point"), Field(event, "offsetX"),
                        Field(event, "offsetY")>>)>>]
        ELSE IF name = "_eventsMultiTouch"
        THEN [d EXCEPT !.calls = @ \o
                <<HandlerCall("onMultiTouch", seq,
                      <<Field(event, "pointA"), Field(event, "pointB"),
                        Field(event, "previousPinchSquaredDistance"),
                        Field(event, "pinchSquaredDistance"),
                        Field(event, "previousMultiTouchPanPosition"),
                        Field(event, "multiTouchPanPosition")>>),
                  ObserverCall("onMultiTouchObservable", seq, event)>>,
                      !.pps = Field(event, "pinchSquaredDistance"),
                      !.pmp = Field(event, "multiTouchPanPosition")]
        ELSE d

\* The body of checkInputs()'s loop for one popped payload.
\* d = [bufs, calls, pps, pmp, iter, skips]; pps and pmp are
\* this._previousPinchSquaredDistance and this._previousMultiTouchPanPosition,
\* iter counts the iterations of the loop and skips lists those that ended
\* in `continue`.
Dispatch(d, name, event) ==
    LET seq == Field(event, "seq")
    IN  IF name = "_eventsButtonDown"
        THEN [d EXCEPT !.calls = @ \o
                <<HandlerCall("onButtonDown", seq, <<Field(event, "event")>>),
                  ObserverCall("onButtonDownObservable", seq, event)>>]
        ELSE IF name = "_eventsButtonUp"
        THEN [d EXCEPT !.calls = @ \o
                <<HandlerCall("onButtonUp", seq, <<Field(event, "event")>>),
                  ObserverCall("onButtonUpObservable", seq, event)>>]
        ELSE IF name = "_eventsDoubleTap"
        THEN [d EXCEPT !.calls = @ \o
                <<HandlerCall("onDoubleTap", seq, <<Field(event, "type")>>),
                  ObserverCall("onDoubleTapObservable", seq, event)>>]
        ELSE IF name = "_eventsTouch"
        THEN [d EXCEPT !.calls = @ \o
                <<HandlerCall("onTouch", seq,
                      <<Field(event, "point"), Field(event, "offsetX"),
                        Field(event, "offsetY")>>),
                  ObserverCall("onTouchObservable", seq, event)>>]
        ELSE IF name = "_eventsMultiTouch"
        THEN [d EXCEPT !.calls = @ \o
                <<HandlerCall("onMultiTouch", seq,
                      <<Field(event, "pointA"), Field(event, "pointB"),
                        Field(event, "previousPinchSquaredDistance"),
                        Field(event, "pinchSquaredDistance"),
                        Field(event, "previousMultiTouchPanPosition"),
                        Field(event, "multiTouchPanPosition")>>),
                  ObserverCall("onMultiTouchObservable", seq, event)>>,
                      !.pps = Field(event, "pinchSquaredDistance"),
                      !.pmp = Field(event, "multiTouchPanPosition")]
        ELSE d

\* An iteration that leaves the tag it looked at in the Order Buffer.
DrainStep_keepTag(d) ==
    IF d.bufs["_allEvents"].length > 0
    THEN LET eventBuffer == popped(d.bufs["_allEvents"])
             name == eventBuffer.buffer.ringBuffer
             event == popped(d.bufs[name])
             b2 == [d.bufs EXCEPT ![name] = pop(@)]
         IN  IF event = Undefined
             THEN [d EXCEPT !.bufs = b2, !.iter = @ + 1,
                            !.skips = Append(@, d.iter + 1)]
             ELSE Dispatch([d EXCEPT !.bufs = b2, !.iter = @ + 1], name, event)
    ELSE d

\* An iteration that gives up the whole drain when the tagged Slot Buffer
\* is empty.
DrainStep_haltOnEmpty(d) ==
    IF d.bufs["_allEvents"].length > 0
    THEN LET eventBuffer == popped(d.bufs["_allEvents"])
             b1 == [d.bufs EXCEPT !["_allEvents"] = pop(@)]
             name == eventBuffer.buffer.ringBuffer
             event == popped(b1[name])
             b2 == [b1 EXCEPT ![name] = pop(@)]
         IN  IF event = Undefined
             THEN [d EXCEPT !.bufs = [b2 EXCEPT !["_allEvents"] = clear(@)],
                            !.iter = @ + 1,
                            !.skips = Append(@, d.iter + 1)]
             ELSE Dispatch([d EXCEPT !.bufs = b2, !.iter = @ + 1], name, event)
    ELSE d

\* One iteration of the while loop of checkInputs().
DrainStep(d) ==
    IF d.bufs["_allEvents"].length > 0
    THEN LET eventBuffer == popped(d.bufs["_allEvents"])
             b1 == [d.bufs EXCEPT !["_allEvents"] = pop(@)]
         IN  IF eventBuffer = Undefined
             THEN [d EXCEPT !.bufs = b1, !.iter = @ + 1,
                            !.skips = Append(@, d.iter + 1)]
             ELSE LET name == eventBuffer.buffer.ringBuffer
                      event == popped(b1[name])
                      b2 == [b1 EXCEPT ![name] = pop(@)]
                  IN  IF event = Undefined
                      THEN [d EXCEPT !.bufs = b2, !.iter = @ + 1,
                                     !.skips = Append(@, d.iter + 1)]
                      ELSE Dispatch([d EXCEPT !.bufs = b2, !.iter = @ + 1],
                                    name, event)
    ELSE d

\* n iterations (halving keeps the evaluation shallow).
RECURSIVE DrainN(_, _)
DrainN(d, n) ==
    IF n = 0 \/ d.bufs["_allEvents"].length <= 0 THEN d
    ELSE IF n = 1 THEN DrainStep(d)
    ELSE DrainN(DrainN(d, n \div 2), n - (n \div 2))

\* while (this._allEvents.length > 0) { ... }: every iteration pops one tag,
\* so the loop ends after _allEvents.length iterations.
Drain(d) == DrainN(d, d.bufs["_allEvents"].length)

\* What checkInputs() starts its loop with, given the buffers bs.
DrainStart(bs) ==
    [bufs |-> bs, calls |-> <<>>,
     pps |-> _previousPinchSquaredDistance,
     pmp |-> _previousMultiTouchPanPosition,
     iter |-> 0, skips |-> <<>>]

\* The loop of checkInputs(), started with the buffers bs.
DrainFrom(bs) == Drain(DrainStart(bs))

\* The state after a checkInputs() whose loop left d.
Returned(d) ==
    /\ bufs' = d.bufs
    /\ calls' = d.calls
    /\ _previousPinchSquaredDistance' = d.pps
    /\ _previousMultiTouchPanPosition' = d.pmp
    /\ skipped' = d.skips
    /\ delivered' = delivered \o SelectSeq(d.calls, LAMBDA c : ~c.obs)

\* checkInputs() of the input; the checkInputs() of its twin finds the twin's
\* Order Buffer empty.
CheckInputs ==
    /\ nFrames < MaxFrames
    /\ Returned(DrainFrom(bufs))
    /\ lastFrameStart' = frameStart
    /\ frameStart' = Len(captured)
    /\ nFrames' = nFrames + 1
    /\ UNCHANGED <<heap, _pointA, _pointB, previousPinchSquaredDistance,
                   previousMultiTouchPanPosition, _modifiers, _defferCallback,
                   _observer, twin, captured, nEvents, overflowed, detached,
                   lastInput, noticed, scenario>>
    /\ UNCHANGED ringVars

\* The state one _pointerInput() call reads and writes.
Current ==
    [q |-> [bufs |-> bufs, calls |-> calls, captured |-> captured,
            _defferCallback |-> _defferCallback],
     heap |-> heap,
     pointA |-> _pointA,
     pointB |-> _pointB,
     ppsd |-> previousPinchSquaredDistance,
     pmtp |-> previousMultiTouchPanPosition,
     modifiers |-> _modifiers]

\* The isPointerLock branch that reports the tracked point and keeps it.
PointerLockBranch_tracked(c1, evt) ==
    [c1 EXCEPT !.q = _addEventsTouch(c1.q, c1.pointA, evt.movementX, evt.movementY)]

\* The isPointerLock branch of _pointerInput().
PointerLockBranch(c1, evt) ==
    [c1 EXCEPT !.q = _addEventsTouch(c1.q, Null, evt.movementX, evt.movementY),
               !.pointA = Null,
               !.pointB = Null]

\* The POINTERDOWN branch with a third contact that takes the place of
\* _pointB.
PointerDownBranch_replaceB(c1, evt) ==
    LET point == [x |-> evt.clientX, y |-> evt.clientY,
                  pointerId |-> evt.pointerId, type |-> evt.pointerType]
        fresh == [ref |-> Len(c1.heap) + 1]
        c2 == IF c1.pointA = Null
              THEN [c1 EXCEPT !.heap = Append(@, point), !.pointA = fresh]
              ELSE [c1 EXCEPT !.heap = Append(@, point), !.pointB = fresh]
    IN  [c2 EXCEPT !.q = _addEventsButtonDown(c2.q, evt)]

\* The POINTERDOWN branch of _pointerInput().
PointerDownBranch(c1, evt) ==
    LET point == [x |-> evt.clientX, y |-> evt.clientY,
                  pointerId |-> evt.pointerId, type |-> evt.pointerType]
        fresh == [ref |-> Len(c1.heap) + 1]
        c2 == IF c1.pointA = Null
              THEN [c1 EXCEPT !.heap = Append(@, point), !.pointA = fresh]
              ELSE IF c1.pointB = Null
              THEN [c1 EXCEPT !.heap = Append(@, point), !.pointB = fresh]
              ELSE c1
    IN  [c2 EXCEPT !.q = _addEventsButtonDown(c2.q, evt)]

\* The POINTERUP branch that keeps _pointA when _pointA's contact is lifted.
Lifted_noPromote(c1, evt, engine) ==
    LET c2 == IF evt.pointerType # "touch" THEN [c1 EXCEPT !.pointB = Null] ELSE c1
    IN  IF engine._badOS
        THEN [c2 EXCEPT !.pointA = Null, !.pointB = Null]
        ELSE IF /\ c2.pointB # Null
                /\ c2.pointA # Null
                /\ Deref(c2.heap, c2.pointA).pointerId = evt.pointerId
        THEN [c2 EXCEPT !.pointB = Null]
        ELSE IF /\ c2.pointA # Null
                /\ c2.pointB # Null
                /\ Deref(c2.heap, c2.pointB).pointerId = evt.pointerId
        THEN [c2 EXCEPT !.pointB = Null]
        ELSE [c2 EXCEPT !.pointA = Null, !.pointB = Null]

\* The tracked points after the POINTERUP branch of _pointerInput().
Lifted(c1, evt, engine) ==
    LET c2 == IF evt.pointerType # "touch" THEN [c1 EXCEPT !.pointB = Null] ELSE c1
    IN  IF engine._badOS
        THEN [c2 EXCEPT !.pointA = Null, !.pointB = Null]
        ELSE IF /\ c2.pointB # Null
                /\ c2.pointA # Null
                /\ Deref(c2.heap, c2.pointA).pointerId = evt.pointerId
        THEN [c2 EXCEPT !.pointA = c2.pointB, !.pointB = Null]
        ELSE IF /\ c2.pointA # Null
                /\ c2.pointB # Null
                /\ Deref(c2.heap, c2.pointB).pointerId = evt.pointerId
        THEN [c2 EXCEPT !.pointB = Null]
        ELSE [c2 EXCEPT !.pointA = Null, !.pointB = Null]

\* The POINTERUP branch that enqueues the ButtonUp before it ends the pinch.
PointerUpBranch_upFirst(c1, evt, engine) ==
    LET c3 == Lifted(c1, evt, engine)
        c4 == [c3 EXCEPT !.q = _addEventsButtonUp(c3.q, evt)]
    IN  IF c4.ppsd # 0 \/ c4.pmtp # Null
        THEN [c4 EXCEPT
                !.q = _addEventsMultiTouch(c4.q, c4.pointA, c4.pointB,
                          c4.ppsd, 0, c4.pmtp, Null),
                !.ppsd = 0,
                !.pmtp = Null]
        ELSE c4

\* The POINTERUP branch of _pointerInput().
PointerUpBranch(c1, evt, engine) ==
    LET c3 == Lifted(c1, evt, engine)
        c4 == IF c3.ppsd # 0 \/ c3.pmtp # Null
              THEN [c3 EXCEPT
                      !.q = _addEventsMultiTouch(c3.q, c3.pointA, c3.pointB,
                                c3.ppsd, 0, c3.pmtp, Null),
                      !.ppsd = 0,
                      !.pmtp = Null]
              ELSE c3
    IN  [c4 EXCEPT !.q = _addEventsButtonUp(c4.q, evt)]

\* The POINTERMOVE branch with a move that is taken for a drag of an
\* untracked contact when no point is tracked.
PointerMoveBranch_untracked(c1, p) ==
    LET evt == p.event
    IN  IF c1.pointA # Null /\ c1.pointB = Null
        THEN LET a == Deref(c1.heap, c1.pointA)
                 offsetX == evt.clientX - a.x
                 offsetY == evt.clientY - a.y
             IN  [c1 EXCEPT
                     !.q = _addEventsTouch(c1.q, c1.pointA, offsetX, offsetY),
                     !.heap[c1.pointA.ref].x = evt.clientX,
                     !.heap[c1.pointA.ref].y = evt.clientY]
        ELSE IF c1.pointA # Null /\ c1.pointB # Null
        THEN LET ed == IF Deref(c1.heap, c1.pointA).pointerId = evt.pointerId
                       THEN c1.pointA ELSE c1.pointB
                 h == [c1.heap EXCEPT ![ed.ref].x = evt.clientX,
                                      ![ed.ref].y = evt.clientY]
                 a == Deref(h, c1.pointA)
                 b == Deref(h, c1.pointB)
                 distX == a.x - b.x
                 distY == a.y - b.y
                 pinchSquaredDistance == ToInt32((distX * distX) + (distY * distY))
                 multiTouchPanPosition ==
                     [x |-> (a.x + b.x) \div 2, y |-> (a.y + b.y) \div 2,
                      pointerId |-> evt.pointerId, type |-> p.type]
             IN  [c1 EXCEPT
                     !.heap = h,
                     !.q = _addEventsMultiTouch(c1.q, c1.pointA, c1.pointB,
                               c1.ppsd, pinchSquaredDistance,
                               c1.pmtp, multiTouchPanPosition),
                     !.pmtp = multiTouchPanPosition,
                     !.ppsd = pinchSquaredDistance]
        ELSE [c1 EXCEPT !.q = _addEventsTouch(c1.q, Null, evt.clientX, evt.clientY)]

\* The POINTERMOVE branch of _pointerInput().
PointerMoveBranch(c1, p) ==
    LET evt == p.event
    IN  IF c1.pointA # Null /\ c1.pointB = Null
        THEN LET a == Deref(c1.heap, c1.pointA)
                 offsetX == evt.clientX - a.x
                 offsetY == evt.clientY - a.y
             IN  [c1 EXCEPT
                     !.q = _addEventsTouch(c1.q, c1.pointA, offsetX, offsetY),
                     !.heap[c1.pointA.ref].x = evt.clientX,
                     !.heap[c1.pointA.ref].y = evt.clientY]
        ELSE IF c1.pointA # Null /\ c1.pointB # Null
        THEN LET ed == IF Deref(c1.heap, c1.pointA).pointerId = evt.pointerId
                       THEN c1.pointA ELSE c1.pointB
                 h == [c1.heap EXCEPT ![ed.ref].x = evt.clientX,
                                      ![ed.ref].y = evt.clientY]
                 a == Deref(h, c1.pointA)
                 b == Deref(h, c1.pointB)
                 distX == a.x - b.x
                 distY == a.y - b.y
                 pinchSquaredDistance == ToInt32((distX * distX) + (distY * distY))
                 multiTouchPanPosition ==
                     [x |-> (a.x + b.x) \div 2, y |-> (a.y + b.y) \div 2,
                      pointerId |-> evt.pointerId, type |-> p.type]
             IN  [c1 EXCEPT
                     !.heap = h,
                     !.q = _addEventsMultiTouch(c1.q, c1.pointA, c1.pointB,
                               c1.ppsd, pinchSquaredDistance,
                               c1.pmtp, multiTouchPanPosition),
                     !.pmtp = multiTouchPanPosition,
                     !.ppsd = pinchSquaredDistance]
        ELSE c1

\* this._pointerInput(p, s), as a function of the state before the call.
\* engine = [isInVRExclusivePointerMode, isPointerLock, _badOS];
\* p.event.srcElement is TRUE iff (evt.srcElement || evt.target) is set.
_pointerInput(c, p, engine) ==
    LET evt == p.event
        c1 == [c EXCEPT !.modifiers =
                  [altKey |-> evt.altKey, ctrlKey |-> evt.ctrlKey,
                   metaKey |-> evt.metaKey, shiftKey |-> evt.shiftKey,
                   buttonsPressed |-> evt.buttons]]
    IN
    IF engine.isInVRExclusivePointerMode THEN c
    ELSE IF p.type # "POINTERMOVE" /\ evt.button \notin buttons THEN c
    ELSE IF engine.isPointerLock THEN PointerLockBranch(c1, evt)
    ELSE IF p.type = "POINTERDOWN" /\ evt.srcElement THEN PointerDownBranch(c1, evt)
    ELSE IF p.type = "POINTERDOUBLETAP"
    THEN [c1 EXCEPT !.q = _addEventsDoubleTap(c1.q, evt.pointerType)]
    ELSE IF p.type = "POINTERUP" /\ evt.srcElement THEN PointerUpBranch(c1, evt, engine)
    ELSE IF p.type = "POINTERMOVE" THEN PointerMoveBranch(c1, p)
    ELSE c1

\* The _addEvents*() calls that led to q pushed more tags than the Order
\* Buffer had room for.
Evicts(q) ==
    bufs["_allEvents"].length
        + Len(SelectSeq(SubSeq(q.captured, Len(captured) + 1, Len(q.captured)),
                        LAMBDA e : ~e.merged))
        > _maxSize

\* The state after a _pointerInput() call that left c.
Commit(c) ==
    /\ bufs' = c.q.bufs
    /\ calls' = c.q.calls
    /\ captured' = c.q.captured
    /\ heap' = c.heap
    /\ _pointA' = c.pointA
    /\ _pointB' = c.pointB
    /\ previousPinchSquaredDistance' = c.ppsd
    /\ previousMultiTouchPanPosition' = c.pmtp
    /\ _modifiers' = c.modifiers
    /\ overflowed' = (overflowed \/ Evicts(c.q))
    /\ noticed' = noticed \o [k \in 1..(Len(c.q.captured) - Len(captured))
                                 |-> c.modifiers]

\* The host delivers one pointer event to the observers of both inputs.
PointerInput(p, engine) ==
    /\ Commit(_pointerInput(Current, p, engine))
    /\ twin' = _pointerInput(twin, p, engine)
    /\ nEvents' = nEvents + 1
    /\ lastInput' = [p |-> p, engine |-> engine]
    /\ UNCHANGED <<_previousPinchSquaredDistance,
                   _previousMultiTouchPanPosition, _defferCallback, _observer,
                   frameStart, lastFrameStart, nFrames, delivered, skipped,
                   detached, scenario>>
    /\ UNCHANGED ringVars

\* The "blur" event of the host window, which the observer never sees.
Blur == [p |-> [type |-> "blur"], engine |-> Null]

\* this._onLostFocus(), of both inputs
OnLostFocus ==
    /\ _pointA' = Null
    /\ _pointB' = Null
    /\ previousPinchSquaredDistance' = 0
    /\ previousMultiTouchPanPosition' = Null
    /\ calls' = Append(calls, HandlerCall("onLostFocus", 0, <<>>))
    /\ twin' = [twin EXCEPT
                   !.pointA = Null, !.pointB = Null, !.ppsd = 0, !.pmtp = Null,
                   !.q.calls = Append(@, HandlerCall("onLostFocus", 0, <<>>))]
    /\ nEvents' = nEvents + 1
    /\ lastInput' = Blur
    /\ UNCHANGED <<bufs, heap, _previousPinchSquaredDistance,
                   _previousMultiTouchPanPosition, _modifiers, _defferCallback,
                   _observer, captured, frameStart, lastFrameStart, nFrames,
                   delivered, skipped, overflowed, detached, noticed,
                   scenario>>
    /\ UNCHANGED ringVars

\* The observer that attachControl() registers.
Observer == [observer |-> "_pointerInput"]

\* The modifier keys and pressed buttons after attachControl() and
\* detachControl().
NoModifiers ==
    [altKey |-> FALSE, ctrlKey |-> FALSE, metaKey |-> FALSE,
     shiftKey |-> FALSE, buttonsPressed |-> 0]

\* detachControl() that leaves the Order Buffer as it is.
DetachControl_keepTags ==
    /\ Len(detached) < MaxDetach
    /\ _observer' = Null
    /\ _modifiers' = NoModifiers
    /\ bufs' = [name \in RingBuffers |->
                  IF name = "_allEvents" THEN bufs[name] ELSE clear(bufs[name])]
    /\ twin' = [twin EXCEPT !.modifiers = NoModifiers]
    /\ detached' = Append(detached, Len(captured))
    /\ UNCHANGED <<heap, _pointA, _pointB, previousPinchSquaredDistance,
                   previousMultiTouchPanPosition, _previousPinchSquaredDistance,
                   _previousMultiTouchPanPosition, _defferCallback, calls,
                   captured, frameStart, lastFrameStart, nEvents, nFrames,
                   delivered, skipped, overflowed, lastInput, noticed,
                   scenario>>
    /\ UNCHANGED ringVars

\* detachControl(), of both inputs.  The observers that detachControl()
\* removes from the five observables belong to the host and are not part of
\* the state; `calls` keeps recording notifyObservers().
DetachControl ==
    /\ Len(detached) < MaxDetach
    /\ _observer' = Null
    /\ _modifiers' = NoModifiers
    /\ bufs' = [name \in RingBuffers |-> clear(bufs[name])]
    /\ twin' = [twin EXCEPT
                   !.modifiers = NoModifiers,
                   !.q.bufs = [name \in RingBuffers |-> clear(@[name])]]
    /\ detached' = Append(detached, Len(captured))
    /\ UNCHANGED <<heap, _pointA, _pointB, previousPinchSquaredDistance,
                   previousMultiTouchPanPosition, _previousPinchSquaredDistance,
                   _previousMultiTouchPanPosition, _defferCallback, calls,
                   captured, frameStart, lastFrameStart, nEvents, nFrames,
                   delivered, skipped, overflowed, lastInput, noticed,
                   scenario>>
    /\ UNCHANGED ringVars

\* attachControl() of both inputs, after a detachControl().
AttachControl ==
    /\ _observer = Null
    /\ previousPinchSquaredDistance' = 0
    /\ previousMultiTouchPanPosition' = Null
    /\ _pointA' = Null
    /\ _pointB' = Null
    /\ _modifiers' = NoModifiers
    /\ _observer' = Observer
    /\ twin' = [twin EXCEPT !.ppsd = 0, !.pmtp = Null, !.pointA = Null,
                            !.pointB = Null, !.modifiers = NoModifiers]
    /\ UNCHANGED <<bufs, heap, _previousPinchSquaredDistance,
                   _previousMultiTouchPanPosition, _defferCallback, calls,
                   captured, frameStart, lastFrameStart, nEvents, nFrames,
                   delivered, skipped, overflowed, detached, lastInput,
                   noticed, scenario>>
    /\ UNCHANGED ringVars

---------------------------------------------------------------------------
(* The hosts.  Five kinds of session drive the input:                      *)
(*   "mouse"  any short sequence of events of one mouse, including         *)
(*            double taps, pointer lock, dropped events and focus loss;    *)
(*   "touch"  any short sequence of events of two fingers, on engines      *)
(*            with and without _badOS;                                     *)
(*   "flood"  a long run of one-finger drags (down, two moves, up), frames *)
(*            rendered only between drags, which is what fills the ring    *)
(*            buffers to their maximum size;                               *)
(*   "pinch"  a long run of two-finger pinches (first finger down, second  *)
(*            finger down, second finger moves, first finger up, second    *)
(*            finger up), frames rendered only between pinches;            *)
(*   "contacts"  a gesture of two fingers during which further contacts    *)
(*            land: pointerdown and pointermove events only.               *)

Mouse == [pointerId |-> 1, pointerType |-> "mouse"]
FingerA == [pointerId |-> 2, pointerType |-> "touch"]
FingerB == [pointerId |-> 3, pointerType |-> "touch"]

Devices == IF scenario = "mouse" THEN {Mouse} ELSE {FingerA, FingerB}

\* clientX, clientY; even, so that the midpoint of two contacts is integral.
Origin == <<0, 0>>
Positions == IF scenario \in {"detach", "clear", "contacts"}
             THEN {<<2, 4>>}
             ELSE {Origin, <<2, 4>>}

\* movementX, movementY
Movements == {<<6, 2>>}

Event(dev, button, pos, mv, src) ==
    [button |-> button, pointerId |-> dev.pointerId,
     pointerType |-> dev.pointerType,
     clientX |-> pos[1], clientY |-> pos[2],
     movementX |-> mv[1], movementY |-> mv[2],
     altKey |-> FALSE, ctrlKey |-> FALSE, metaKey |-> FALSE,
     shiftKey |-> FALSE, buttons |-> 0, srcElement |-> src]

Engine(vr, lock, badOS) ==
    [isInVRExclusivePointerMode |-> vr, isPointerLock |-> lock, _badOS |-> badOS]

\* Events reach an input only while its observer is registered.
Free ==
    /\ scenario \in {"mouse", "touch", "detach", "clear", "contacts"}
    /\ _observer # Null
    /\ nEvents < (IF scenario \in {"detach", "clear"}
                  THEN MaxResetEvents
                  ELSE IF scenario = "contacts"
                  THEN MaxContactEvents
                  ELSE MaxEvents)

PointerDown ==
    /\ Free
    /\ \E dev \in Devices :
         PointerInput([type |-> "POINTERDOWN",
                       event |-> Event(dev, 0, Origin, <<0, 0>>, TRUE)],
                      Engine(FALSE, FALSE, FALSE))

PointerUp ==
    /\ Free
    /\ scenario # "contacts"
    /\ \E dev \in Devices, badOS \in BOOLEAN :
         /\ badOS => scenario = "touch"
         /\ PointerInput([type |-> "POINTERUP",
                          event |-> Event(dev, 0, Origin, <<0, 0>>, TRUE)],
                         Engine(FALSE, FALSE, badOS))

PointerMove ==
    /\ Free
    /\ \E dev \in Devices, pos \in Positions :
         PointerInput([type |-> "POINTERMOVE",
                       event |-> Event(dev, 0, pos, <<0, 0>>, TRUE)],
                      Engine(FALSE, FALSE, FALSE))

PointerDoubleTap ==
    /\ Free
    /\ scenario = "mouse"
    /\ PointerInput([type |-> "POINTERDOUBLETAP",
                     event |-> Event(Mouse, 0, Origin, <<0, 0>>, TRUE)],
                    Engine(FALSE, FALSE, FALSE))

\* Any event while the engine is in pointer-lock mode.
PointerLocked ==
    /\ Free
    /\ scenario = "mouse"
    /\ \E type \in {"POINTERDOWN", "POINTERUP", "POINTERMOVE",
                    "POINTERDOUBLETAP"},
          mv \in Movements :
         PointerInput([type |-> type,
                       event |-> Event(Mouse, 0, Origin, mv, TRUE)],
                      Engine(FALSE, TRUE, FALSE))

\* Events the observer drops: VR exclusive pointer mode, a button that is
\* not in `buttons`, or a down/up without a source element.
PointerIgnored ==
    /\ Free
    /\ scenario = "mouse"
    /\ \E type \in {"POINTERDOWN", "POINTERUP"},
          why \in {"vr", "button", "srcElement"} :
         PointerInput([type |-> type,
                       event |-> Event(Mouse, IF why = "button" THEN 3 ELSE 0,
                                       Origin, <<0, 0>>, why # "srcElement")],
                      Engine(why = "vr", FALSE, FALSE))

LostFocus == Free /\ scenario # "contacts" /\ OnLostFocus

\* A frame of the render loop that finds events waiting.
Frame ==
    /\ scenario \in {"mouse", "touch", "contacts"}
    /\ bufs["_allEvents"].length > 0
    /\ CheckInputs

Flood ==
    /\ scenario = "flood"
    /\ _observer # Null
    /\ nEvents < MaxFloodEvents

\* The drag of the flood: down at the origin, two moves, up.
FloodEnd == <<4, 8>>

FloodDown ==
    /\ Flood
    /\ _pointA = Null
    /\ PointerInput([type |-> "POINTERDOWN",
                     event |-> Event(FingerA, 0, Origin, <<0, 0>>, TRUE)],
                    Engine(FALSE, FALSE, FALSE))

FloodMove ==
    /\ Flood
    /\ _pointA # Null
    /\ LET a == Deref(heap, _pointA)
       IN  /\ a.x < FloodEnd[1]
           /\ PointerInput([type |-> "POINTERMOVE",
                            event |-> Event(FingerA, 0, <<a.x + 2, a.y + 4>>,
                                            <<0, 0>>, TRUE)],
                           Engine(FALSE, FALSE, FALSE))

FloodUp ==
    /\ Flood
    /\ _pointA # Null
    /\ Deref(heap, _pointA).x = FloodEnd[1]
    /\ PointerInput([type |-> "POINTERUP",
                     event |-> Event(FingerA, 0, FloodEnd, <<0, 0>>, TRUE)],
                    Engine(FALSE, FALSE, FALSE))

Pinch ==
    /\ scenario = "pinch"
    /\ _observer # Null
    /\ nEvents < MaxPinchEvents

\* Where the second finger lands, and where it moves to.
PinchStart == <<2, 4>>
PinchEnd == <<4, 8>>

PinchDown ==
    /\ Pinch
    /\ _pointB = Null
    /\ IF _pointA = Null
       THEN TRUE
       ELSE Deref(heap, _pointA).pointerId = FingerA.pointerId
    /\ PointerInput([type |-> "POINTERDOWN",
                     event |-> IF _pointA = Null
                               THEN Event(FingerA, 0, Origin, <<0, 0>>, TRUE)
                               ELSE Event(FingerB, 0, PinchStart, <<0, 0>>, TRUE)],
                    Engine(FALSE, FALSE, FALSE))

PinchMove ==
    /\ Pinch
    /\ _pointA # Null
    /\ _pointB # Null
    /\ previousPinchSquaredDistance = 0
    /\ PointerInput([type |-> "POINTERMOVE",
                     event |-> Event(FingerB, 0, PinchEnd, <<0, 0>>, TRUE)],
                    Engine(FALSE, FALSE, FALSE))

PinchUp ==
    /\ Pinch
    /\ _pointA # Null
    /\ IF _pointB # Null
       THEN /\ previousPinchSquaredDistance # 0
            /\ PointerInput([type |-> "POINTERUP",
                             event |-> Event(FingerA, 0, Origin, <<0, 0>>, TRUE)],
                            Engine(FALSE, FALSE, FALSE))
       ELSE /\ Deref(heap, _pointA).pointerId = FingerB.pointerId
            /\ PointerInput([type |-> "POINTERUP",
                             event |-> Event(FingerB, 0, PinchEnd, <<0, 0>>, TRUE)],
                            Engine(FALSE, FALSE, FALSE))

\* A frame of the render loop between two drags or two pinches, with or
\* without events waiting.
FloodFrame ==
    /\ scenario \in {"flood", "pinch"}
    /\ _pointA = Null
    /\ CheckInputs

\* The state after construction and attachControl().
InitInput ==
    /\ bufs = [name \in RingBuffers |-> NewRingBuffer]
    /\ heap = <<>>
    /\ _pointA = Null
    /\ _pointB = Null
    /\ previousPinchSquaredDistance = 0
    /\ previousMultiTouchPanPosition = Null
    /\ _previousPinchSquaredDistance = 0
    /\ _previousMultiTouchPanPosition = Null
    /\ _modifiers = NoModifiers
    /\ _defferCallback = DEFFER_CALLBACK
    /\ _observer = Observer
    /\ twin = [q |-> [bufs |-> [name \in RingBuffers |-> NewRingBuffer],
                      calls |-> <<>>, captured |-> <<>>,
                      _defferCallback |-> FALSE],
               heap |-> <<>>, pointA |-> Null, pointB |-> Null,
               ppsd |-> 0, pmtp |-> Null,
               modifiers |-> NoModifiers]
    /\ delivered = <<>>
    /\ skipped = <<>>
    /\ overflowed = FALSE
    /\ detached = <<>>
    /\ calls = <<>>
    /\ captured = <<>>
    /\ frameStart = 0
    /\ lastFrameStart = 0
    /\ nEvents = 0
    /\ nFrames = 0
    /\ lastInput = Null
    /\ noticed = <<>>

\* The hosts that reset the input, with the events of two fingers as in
\* "touch":
\*   "detach"  calls detachControl() and attachControl();
\*   "clear"   calls clear() on one Slot Buffer on its own, which is one
\*             statement of the reset() helper of the unit tests and leaves
\*             the Order Buffer with tags whose payload is gone.
ClearSlot ==
    /\ scenario = "clear"
    /\ \E name \in SlotBuffers :
         /\ bufs[name].length > 0
         /\ bufs' = [bufs EXCEPT ![name] = clear(@)]
    /\ UNCHANGED <<heap, _pointA, _pointB, previousPinchSquaredDistance,
                   previousMultiTouchPanPosition, _previousPinchSquaredDistance,
                   _previousMultiTouchPanPosition, _modifiers, _defferCallback,
                   _observer, twin, calls, captured, frameStart, lastFrameStart,
                   nEvents, nFrames, delivered, skipped, overflowed, detached,
                   lastInput, noticed, scenario>>
    /\ UNCHANGED ringVars

Detach == scenario = "detach" /\ _observer # Null /\ DetachControl

Attach == scenario = "detach" /\ AttachControl

\* A frame of the render loop that finds events waiting or the input
\* detached.
ResetFrame ==
    /\ scenario \in {"detach", "clear"}
    /\ bufs["_allEvents"].length > 0 \/ _observer = Null
    /\ CheckInputs

vars == <<ringVars, inputVars>>

InitReset ==
    /\ InitInput
    /\ scenario \in {"detach", "clear"}
    /\ rb = NewRingBuffer
    /\ fifo = <<>>
    /\ lastPop = Null
    /\ nPush = 0
    /\ nPop = 0
    /\ evicted = FALSE

NextReset ==
    \/ PointerDown
    \/ PointerUp
    \/ PointerMove
    \/ ClearSlot
    \/ Detach
    \/ Attach
    \/ ResetFrame

SpecReset == InitReset /\ [][NextReset]_vars

Init ==
    /\ InitInput
    /\ scenario \in {"mouse", "touch", "flood", "pinch", "contacts"}
    /\ rb = NewRingBuffer
    /\ fifo = <<>>
    /\ lastPop = Null
    /\ nPush = 0
    /\ nPop = 0
    /\ evicted = FALSE

Next ==
    \/ PointerDown
    \/ PointerUp
    \/ PointerMove
    \/ PointerDoubleTap
    \/ PointerLocked
    \/ PointerIgnored
    \/ LostFocus
    \/ FloodDown
    \/ FloodMove
    \/ FloodUp
    \/ PinchDown
    \/ PinchMove
    \/ PinchUp
    \/ Frame
    \/ FloodFrame

Spec == Init /\ [][Next]_vars

---------------------------------------------------------------------------
(* Observations of the histories.                                          *)

Kinds == {"ButtonDown", "ButtonUp", "DoubleTap", "Touch", "MultiTouch"}

BufferOf(kind) == CASE kind = "ButtonDown" -> "_eventsButtonDown"
                    [] kind = "ButtonUp" -> "_eventsButtonUp"
                    [] kind = "DoubleTap" -> "_eventsDoubleTap"
                    [] kind = "Touch" -> "_eventsTouch"
                    [] kind = "MultiTouch" -> "_eventsMultiTouch"

HandlerOf(kind) == CASE kind = "ButtonDown" -> "onButtonDown"
                     [] kind = "ButtonUp" -> "onButtonUp"
                     [] kind = "DoubleTap" -> "onDoubleTap"
                     [] kind = "Touch" -> "onTouch"
                     [] kind = "MultiTouch" -> "onMultiTouch"

ObservableOf(kind) == CASE kind = "ButtonDown" -> "onButtonDownObservable"
                        [] kind = "ButtonUp" -> "onButtonUpObservable"
                        [] kind = "DoubleTap" -> "onDoubleTapObservable"
                        [] kind = "Touch" -> "onTouchObservable"
                        [] kind = "MultiTouch" -> "onMultiTouchObservable"

Min(a, b) == IF a < b THEN a ELSE b

KeepLast(s, n) == IF Len(s) <= n THEN s ELSE SubSeq(s, Len(s) - n + 1, Len(s))

\* Handler and observer calls other than onLostFocus.
PointerCalls(cs) == SelectSeq(cs, LAMBDA c : c.fn # "onLostFocus")

\* Handler calls of checkInputs().
Handlers(cs) == SelectSeq(cs, LAMBDA c : ~c.obs /\ c.fn # "onLostFocus")

Fns(cs) == [i \in 1..Len(cs) |-> cs[i].fn]

\* The captures made since the last checkInputs(), and those the last
\* checkInputs() was called with.
Pending == (frameStart + 1)..Len(captured)
Drained == (lastFrameStart + 1)..frameStart

\* The captures lo..hi that took a slot of their own, in order.
Fresh(lo, hi) ==
    SelectSeq(SubSeq(captured, lo, hi), LAMBDA e : ~e.merged)

\* The buffers named by the tags waiting in the Order Buffer, oldest first.
TagNames(b) == LET tags == PopAll(b)
               IN  [i \in 1..Len(tags) |-> tags[i].buffer.ringBuffer]

\* The last capture of the run of captures of one kind that starts at i and
\* ends at or before hi.
RECURSIVE RunEnd(_, _)
RunEnd(i, hi) ==
    IF i < hi /\ captured[i + 1].kind = captured[i].kind
    THEN RunEnd(i + 1, hi)
    ELSE i

\* The sum of argument a of the captures i..j.
RECURSIVE SumArg(_, _, _)
SumArg(i, j, a) ==
    IF i > j THEN 0 ELSE captured[i].args[a] + SumArg(i + 1, j, a)

\* C1: the handler calls of a checkInputs() are made in the order of the
\* captures whose payload they deliver.
C1_DrainPreservesCaptureOrder ==
    LET h == Handlers(calls)
    IN  \A i, j \in 1..Len(h) : i < j => h[i].seq < h[j].seq

\* C2: a checkInputs() makes min(50, N - merged) handler calls, where N is
\* the number of captures since the previous checkInputs() and merged the
\* number of those that were coalesced; ButtonDown, ButtonUp and DoubleTap
\* captures are never coalesced, and when no more than 50 captures took a
\* slot, every kind's handler is called once per capture of that kind that
\* was not coalesced.
C2_DrainCallCount ==
    nFrames >= 1 =>
        LET fresh == Fresh(lastFrameStart + 1, frameStart)
            h == Handlers(calls)
        IN  /\ Len(h) = Min(_maxSize, Len(fresh))
            /\ \A k \in Drained :
                   captured[k].kind \in {"ButtonDown", "ButtonUp", "DoubleTap"}
                       => ~captured[k].merged
            /\ Len(fresh) <= _maxSize =>
                   \A kind \in Kinds :
                       Len(SelectSeq(h, LAMBDA c : c.fn = HandlerOf(kind)))
                           = Len(SelectSeq(fresh, LAMBDA e : e.kind = kind))

\* More than 50 captures took a slot, some captures were coalesced, and the
\* drain made 50 handler calls.
C2_Witness ==
    /\ nFrames >= 1
    /\ Len(Fresh(lastFrameStart + 1, frameStart)) > _maxSize
    /\ \E k \in Drained : captured[k].merged
    /\ Len(Handlers(calls)) = _maxSize

\* C2 as the specification states it: a checkInputs() makes exactly
\* N - merged handler calls.
C2_CallCountUnbounded ==
    nFrames >= 1 =>
        Len(Handlers(calls)) = Len(Fresh(lastFrameStart + 1, frameStart))

\* C3: a step that is not a checkInputs() call invokes no handler of a
\* pointer event and notifies no observer.
C3_NoDispatchDuringCapture ==
    [][nFrames' = nFrames => PointerCalls(calls') = PointerCalls(calls)]_vars

\* Four events were captured, none has been dispatched.
C3_Witness ==
    /\ _defferCallback
    /\ nFrames = 0
    /\ Len(captured) >= 4
    /\ bufs["_allEvents"].length >= 3
    /\ PointerCalls(calls) = <<>>

\* C4: for every run of K consecutive Touch captures i..j that the last
\* checkInputs() was called with, preceded and followed by a capture of
\* another kind, that checkInputs() made exactly one onTouch call for the
\* run, with the point of capture j and the sums of the K offsets.
C4_TouchRunCoalesced ==
    nFrames >= 1 =>
        \A i \in Drained :
            LET j == RunEnd(i, frameStart)
            IN  (/\ captured[i].kind = "Touch"
                 /\ i - 1 \in Drained
                 /\ captured[i - 1].kind # "Touch"
                 /\ j + 1 \in Drained) =>
                LET cs == SelectSeq(Handlers(calls),
                                    LAMBDA c : c.fn = "onTouch" /\ c.seq \in i..j)
                IN  /\ Len(cs) = 1
                    /\ cs[1].args = <<captured[j].args[1],
                                      SumArg(i, j, 2), SumArg(i, j, 3)>>

\* C5: a Touch or MultiTouch capture that is the first since the last
\* checkInputs(), or that follows a capture of another kind, is not
\* coalesced: it takes a slot of its own, which holds its arguments until
\* the next capture of its kind, and a tag of its own, so that the Order
\* Buffer holds one tag per capture that was not coalesced (the last 50 of
\* them), and checkInputs() makes one call per tag.
C5_NewSlotAfterOtherKind ==
    /\ \A k \in Pending :
           (/\ captured[k].kind \in {"Touch", "MultiTouch"}
            /\ (k = frameStart + 1 \/ captured[k - 1].kind # captured[k].kind))
           => /\ ~captured[k].merged
              /\ (\A l \in Pending : l > k => captured[l].kind # captured[k].kind) =>
                     LET b == bufs[BufferOf(captured[k].kind)]
                         a == captured[k].args
                     IN  /\ GetPushed(b, "seq") = k
                         /\ captured[k].kind = "Touch" =>
                                /\ GetPushed(b, "point") = a[1]
                                /\ GetPushed(b, "offsetX") = a[2]
                                /\ GetPushed(b, "offsetY") = a[3]
                         /\ captured[k].kind = "MultiTouch" =>
                                /\ GetPushed(b, "pointA") = a[1]
                                /\ GetPushed(b, "pointB") = a[2]
                                /\ GetPushed(b, "pinchSquaredDistance") = a[4]
                                /\ GetPushed(b, "multiTouchPanPosition") = a[6]
    /\ TagNames(bufs["_allEvents"]) =
           KeepLast([i \in 1..Len(Fresh(frameStart + 1, Len(captured))) |->
                        BufferOf(Fresh(frameStart + 1, Len(captured))[i].kind)],
                    _maxSize)
    /\ nFrames >= 1 =>
           Fns(Handlers(calls)) =
               KeepLast([i \in 1..Len(Fresh(lastFrameStart + 1, frameStart)) |->
                            HandlerOf(Fresh(lastFrameStart + 1, frameStart)[i].kind)],
                        _maxSize)

\* Two runs of moves around a ButtonUp and a ButtonDown were dispatched as two
\* onTouch calls, and the move captured after that checkInputs() has a slot
\* and a tag of its own.
C5_Witness ==
    /\ nFrames = 1
    /\ frameStart >= 3
    /\ Len(SelectSeq(Handlers(calls), LAMBDA c : c.fn = "onTouch")) = 2
    /\ Len(captured) = frameStart + 1
    /\ captured[Len(captured)].kind = "Touch"
    /\ captured[frameStart].kind = "Touch"
    /\ bufs["_allEvents"].length = 1
    /\ bufs["_eventsTouch"].length = 1

\* The MultiTouch slot written last, when a capture since the last
\* checkInputs() wrote it.
MultiTouchOpen ==
    LET m == bufs["_eventsMultiTouch"]
    IN  /\ m.pushed \in DOMAIN m.container
        /\ HasField(m.container[m.pushed], "seq")
        /\ m.container[m.pushed].seq > frameStart

\* C6: a coalesced MultiTouch capture adds no slot and no tag; it adds its
\* pinchSquaredDistance to the slot's, overwrites the slot's pointA, pointB
\* and multiTouchPanPosition, and leaves the slot's
\* previousPinchSquaredDistance and previousMultiTouchPanPosition as they
\* were; so the slot's pinchSquaredDistance is the sum over the captures of
\* its run.
C6_MultiTouchMerge ==
    /\ [](MultiTouchOpen =>
            LET m == bufs["_eventsMultiTouch"]
                i == m.container[m.pushed].seq
                j == RunEnd(i, Len(captured))
            IN  /\ \A k \in (i + 1)..j : captured[k].merged
                /\ m.container[m.pushed].pinchSquaredDistance = SumArg(i, j, 4)
                /\ m.container[m.pushed].multiTouchPanPosition = captured[j].args[6])
    /\ [][\A k \in (Len(captured) + 1)..Len(captured') :
            (captured'[k].kind = "MultiTouch" /\ captured'[k].merged) =>
                LET a == captured'[k].args
                    m == bufs["_eventsMultiTouch"]
                    n == bufs'["_eventsMultiTouch"]
                    s == m.container[m.pushed]
                    t == n.container[n.pushed]
                    later == SelectSeq(SubSeq(captured', k + 1, Len(captured')),
                                       LAMBDA e : ~e.merged)
                IN  /\ n.length = m.length
                    /\ n.pushed = m.pushed
                    /\ Len(n.container) = Len(m.container)
                    /\ TagNames(bufs'["_allEvents"]) =
                           KeepLast(TagNames(bufs["_allEvents"]) \o
                                    [x \in 1..Len(later) |-> BufferOf(later[x].kind)],
                                    _maxSize)
                    /\ t.pinchSquaredDistance = s.pinchSquaredDistance + a[4]
                    /\ t.pointA = a[1]
                    /\ t.pointB = a[2]
                    /\ t.multiTouchPanPosition = a[6]
                    /\ t.previousPinchSquaredDistance = s.previousPinchSquaredDistance
                    /\ t.previousMultiTouchPanPosition = s.previousMultiTouchPanPosition
                    /\ t.seq = s.seq]_vars

\* Two moves of a two-finger drag were coalesced; both had a squared
\* distance of 20.
C6_Witness ==
    /\ Len(captured) >= 4
    /\ captured[Len(captured)].kind = "MultiTouch"
    /\ captured[Len(captured)].merged
    /\ captured[Len(captured)].args[4] = 20
    /\ bufs["_eventsMultiTouch"].length = 1
    /\ GetPushed(bufs["_eventsMultiTouch"], "pinchSquaredDistance") = 40

\* C9: every ring buffer holds between 0 and 50 entries.
C9_LengthWithinCapacity ==
    \A name \in RingBuffers :
        /\ 0 <= bufs[name].length
        /\ bufs[name].length <= _maxSize

\* The Order Buffer is full after more than 50 captures took a slot.
C9_Witness ==
    /\ bufs["_allEvents"].length = _maxSize
    /\ Len(Fresh(frameStart + 1, Len(captured))) > _maxSize + 1
    /\ \A name \in SlotBuffers : bufs[name].length <= _maxSize

\* The sum of the lengths of the five Slot Buffers.
SlotSum(bs) ==
    bs["_eventsButtonDown"].length + bs["_eventsButtonUp"].length
        + bs["_eventsDoubleTap"].length + bs["_eventsTouch"].length
        + bs["_eventsMultiTouch"].length

\* C11: the Order Buffer holds as many tags as the five Slot Buffers hold
\* payloads.
C11_OrderLengthIsSlotSum ==
    bufs["_allEvents"].length = SlotSum(bufs)

\* The number of entries of the sequence tags that name a Slot Buffer.
TagCount(tags, name) ==
    Cardinality({i \in 1..Len(tags) : tags[i] = name})

\* C12: no iteration of checkInputs() finds the Order Buffer's tag undefined
\* or the tagged Slot Buffer empty, and for every kind the tags waiting in
\* the Order Buffer are no more than the payloads in the Slot Buffer.
C12_TagsResolve ==
    /\ skipped = <<>>
    /\ LET tags == TagNames(bufs["_allEvents"])
       IN  \A name \in SlotBuffers :
               TagCount(tags, name) <= bufs[name].length

\* A checkInputs() that found the Order Buffer full, after tags had been
\* evicted, popped a payload for each of the 50 tags.
C12_Witness ==
    /\ overflowed
    /\ nFrames = 1
    /\ skipped = <<>>
    /\ Len(calls) = 2 * _maxSize
    /\ SlotSum(bufs) > 0

\* C13: when checkInputs() returns, the Order Buffer and the five Slot
\* Buffers are empty.
C13_DrainEmptiesAll ==
    [][nFrames' = nFrames + 1 =>
          \A name \in RingBuffers : bufs'[name].length = 0]_vars

\* C14: the loop of checkInputs() ends: every iteration takes one tag off
\* the Order Buffer, so that from any state the loop has run out of tags
\* after as many iterations as there were tags, and the Order Buffer is
\* empty when checkInputs() returns.
C14_DrainTerminates ==
    /\ [](\A i \in 1..bufs["_allEvents"].length :
             DrainN(DrainStart(bufs), i).bufs["_allEvents"].length
                 = bufs["_allEvents"].length - i)
    /\ [][nFrames' = nFrames + 1 => bufs'["_allEvents"].length = 0]_vars

\* A checkInputs() went through a full Order Buffer and a later one through
\* a few tags; both left it empty.
C14_Witness ==
    /\ nFrames = 2
    /\ Len(delivered) > _maxSize
    /\ calls # <<>>
    /\ bufs["_allEvents"].length = 0

KindOfBuffer(name) == CHOOSE kind \in Kinds : BufferOf(kind) = name

\* The arguments a handler is to be given for a payload.
HandlerArgs(kind, typedEvent) ==
    CASE kind \in {"ButtonDown", "ButtonUp"} -> <<Field(typedEvent, "event")>>
      [] kind = "DoubleTap" -> <<Field(typedEvent, "type")>>
      [] kind = "Touch" ->
            <<Field(typedEvent, "point"), Field(typedEvent, "offsetX"),
              Field(typedEvent, "offsetY")>>
      [] kind = "MultiTouch" ->
            <<Field(typedEvent, "pointA"), Field(typedEvent, "pointB"),
              Field(typedEvent, "previousPinchSquaredDistance"),
              Field(typedEvent, "pinchSquaredDistance"),
              Field(typedEvent, "previousMultiTouchPanPosition"),
              Field(typedEvent, "multiTouchPanPosition")>>

\* The entries of s whose position is not in the sequence skips.
Kept(s, skips) ==
    LET RECURSIVE keep(_)
        keep(i) == IF i > Len(s) THEN <<>>
                   ELSE IF \E x \in 1..Len(skips) : skips[x] = i
                   THEN keep(i + 1)
                   ELSE <<s[i]>> \o keep(i + 1)
    IN  keep(1)

\* C16: for every tag that checkInputs() pops together with a payload, it
\* calls the handler of the tag's kind and then notifies the observable of
\* that kind, once each, the observers being given the payload from which
\* the handler's arguments were taken; it makes no other call.
C16_OneHandlerOneNotification ==
    [][nFrames' = nFrames + 1 =>
          \A all \in {TagNames(bufs["_allEvents"])} :
          \A tags \in {Kept(all, skipped')} :
              /\ Len(calls') = 2 * Len(tags)
              /\ \A i \in 1..Len(tags) :
                     LET kind == KindOfBuffer(tags[i])
                         h == calls'[(2 * i) - 1]
                         o == calls'[2 * i]
                     IN  /\ ~h.obs
                         /\ h.fn = HandlerOf(kind)
                         /\ o.obs
                         /\ o.fn = ObservableOf(kind)
                         /\ Len(o.args) = 1
                         /\ h.args = HandlerArgs(kind, o.args[1])
                         /\ o.seq = h.seq]_vars

\* A checkInputs() dispatched a ButtonDown, a MultiTouch and a ButtonUp:
\* handler, observable, handler, observable, ...
C16_Witness ==
    /\ nFrames >= 1
    /\ Len(calls) >= 8
    /\ \E i \in 1..Len(calls) : calls[i].fn = "onMultiTouchObservable"
    /\ calls[1].fn = "onButtonDown"
    /\ calls[2].fn = "onButtonDownObservable"
    /\ calls[Len(calls)].fn = "onButtonUpObservable"

\* What a loop that skips the tags of empty Slot Buffers is to do with the
\* tags i.. of the sequence tags when the Slot Buffers hold left[name]
\* payloads: for every tag the handler to call, or "" to skip it.
RECURSIVE Walk(_, _, _)
Walk(tags, i, left) ==
    IF i > Len(tags) THEN <<>>
    ELSE IF left[tags[i]] > 0
    THEN <<HandlerOf(KindOfBuffer(tags[i]))>>
             \o Walk(tags, i + 1, [left EXCEPT ![tags[i]] = @ - 1])
    ELSE <<"">> \o Walk(tags, i + 1, left)

\* The positions of s that hold e, in increasing order.
RECURSIVE PositionsOf(_, _, _)
PositionsOf(s, e, i) ==
    IF i > Len(s) THEN <<>>
    ELSE IF s[i] = e THEN <<i>> \o PositionsOf(s, e, i + 1)
    ELSE PositionsOf(s, e, i + 1)

\* C15: a tag that checkInputs() pops while the tagged Slot Buffer is empty
\* is skipped: no handler is called and no observable is notified for it,
\* and the loop goes on with the tags behind it, dispatching each of them
\* that finds a payload, until the Order Buffer is empty.
C15_SkipEmptySlot ==
    [][nFrames' = nFrames + 1 =>
          \A tags \in {TagNames(bufs["_allEvents"])} :
          \A todo \in {Walk(tags, 1, [name \in SlotBuffers |-> bufs[name].length])} :
              /\ bufs'["_allEvents"].length = 0
              /\ skipped' = PositionsOf(todo, "", 1)
              /\ Fns(Handlers(calls')) = SelectSeq(todo, LAMBDA fn : fn # "")
              /\ Len(calls') = 2 * (Len(tags) - Len(skipped'))]_vars

\* A checkInputs() skipped the first tag, whose Slot Buffer had been
\* cleared, and dispatched the two tags behind it.
C15_Witness ==
    /\ nFrames >= 1
    /\ skipped = <<1>>
    /\ Len(calls) = 4
    /\ bufs["_allEvents"].length = 0

\* C17: no step makes the storage of a ring buffer smaller.
C17_StorageNeverShrinks ==
    [][\A name \in RingBuffers :
          Len(bufs'[name].container) >= Len(bufs[name].container)]_vars

\* C18: detachControl() leaves the Order Buffer and the five Slot Buffers
\* with length 0 and head = tail = 0, and no checkInputs() after it calls a
\* handler or notifies an observable for an event captured before it.
C18_DetachClearsQueue ==
    /\ [][Len(detached') > Len(detached) =>
             \A name \in RingBuffers :
                 /\ bufs'[name].length = 0
                 /\ bufs'[name].head = 0
                 /\ bufs'[name].tail = 0]_vars
    /\ [][(nFrames' = nFrames + 1 /\ detached # <<>>) =>
             \A i \in 1..Len(calls') :
                 calls'[i].seq > detached[Len(detached)]]_vars

\* Events were waiting when detachControl() was called; the input was
\* attached again, an event was captured, and the checkInputs() after that
\* made the two calls for that event only.
C18_Witness ==
    /\ detached # <<>>
    /\ detached[Len(detached)] >= 2
    /\ nFrames = 1
    /\ Len(captured) = detached[Len(detached)] + 1
    /\ Len(calls) = 2
    /\ calls[1].seq = Len(captured)

\* The calls of handler fn among cs.
CallsOf(cs, fn) == SelectSeq(cs, LAMBDA c : ~c.obs /\ c.fn = fn)

\* The sum of argument a over the calls cs[i..].
RECURSIVE SumCalls(_, _, _)
SumCalls(cs, i, a) ==
    IF i > Len(cs) THEN 0 ELSE cs[i].args[a] + SumCalls(cs, i + 1, a)

\* The twin was given the events the input was given: its _addEvents*()
\* calls are the input's, with the same arguments.
SameCaptures ==
    /\ Len(twin.q.captured) = Len(captured)
    /\ \A k \in 1..Len(captured) :
           /\ twin.q.captured[k].kind = captured[k].kind
           /\ twin.q.captured[k].args = captured[k].args

\* checkInputs() has returned and nothing was captured since.
AllDrained == nFrames >= 1 /\ frameStart = Len(captured)

\* C19: once checkInputs() has drained the queue, and as long as the Order
\* Buffer never had to evict a tag, the offsetX and the offsetY of all
\* onTouch calls made by checkInputs() so far add up to the same totals as
\* those of the onTouch calls of the immediate twin.
C19_TouchTotalsEqual ==
    /\ SameCaptures
    /\ (AllDrained /\ ~overflowed) =>
           \A now \in {CallsOf(twin.q.calls, "onTouch")} :
           \A later \in {CallsOf(delivered, "onTouch")} :
               /\ SumCalls(later, 1, 2) = SumCalls(now, 1, 2)
               /\ SumCalls(later, 1, 3) = SumCalls(now, 1, 3)

\* Two frames were rendered; the twin made more onTouch calls than
\* checkInputs() did, and the offsets of both add up to (8, 16).
C19_Witness ==
    /\ AllDrained
    /\ ~overflowed
    /\ nFrames = 2
    /\ Len(CallsOf(delivered, "onTouch")) = 2
    /\ Len(CallsOf(twin.q.calls, "onTouch")) = 4
    /\ SumCalls(CallsOf(delivered, "onTouch"), 1, 2) = 8
    /\ SumCalls(CallsOf(delivered, "onTouch"), 1, 3) = 16

\* C19 as the specification states it: the totals are equal after any
\* sequence of captures.
C19_TouchTotalsAlways ==
    AllDrained =>
        \A now \in {CallsOf(twin.q.calls, "onTouch")} :
        \A later \in {CallsOf(delivered, "onTouch")} :
            /\ SumCalls(later, 1, 2) = SumCalls(now, 1, 2)
            /\ SumCalls(later, 1, 3) = SumCalls(now, 1, 3)

\* C20: once checkInputs() has drained the queue, and as long as the Order
\* Buffer never had to evict a tag, the pinchSquaredDistance of all
\* onMultiTouch calls made by checkInputs() so far adds up to the same total
\* as that of the onMultiTouch calls of the immediate twin, and the last
\* onMultiTouch call of each of the two was given the same
\* multiTouchPanPosition.
C20_MultiTouchTotalsEqual ==
    (AllDrained /\ ~overflowed) =>
        \A now \in {CallsOf(twin.q.calls, "onMultiTouch")} :
        \A later \in {CallsOf(delivered, "onMultiTouch")} :
            /\ SumCalls(later, 1, 4) = SumCalls(now, 1, 4)
            /\ (now = <<>>) = (later = <<>>)
            /\ now # <<>> => later[Len(later)].args[6] = now[Len(now)].args[6]

\* Two moves of a pinch were coalesced: the twin made two onMultiTouch calls
\* with a squared distance of 20 each and different pan positions,
\* checkInputs() made one with 40.
C20_Witness ==
    /\ AllDrained
    /\ ~overflowed
    /\ Len(CallsOf(twin.q.calls, "onMultiTouch")) = 2
    /\ Len(CallsOf(delivered, "onMultiTouch")) = 1
    /\ CallsOf(delivered, "onMultiTouch")[1].args[4] = 40
    /\ CallsOf(twin.q.calls, "onMultiTouch")[1].args[6]
           # CallsOf(twin.q.calls, "onMultiTouch")[2].args[6]
    /\ CallsOf(delivered, "onMultiTouch")[1].args[6]
           = CallsOf(twin.q.calls, "onMultiTouch")[2].args[6]

\* C20 as the specification states it: the totals are equal after any
\* sequence of captures.
C20_MultiTouchTotalsAlways ==
    AllDrained =>
        \A now \in {CallsOf(twin.q.calls, "onMultiTouch")} :
        \A later \in {CallsOf(delivered, "onMultiTouch")} :
            /\ SumCalls(later, 1, 4) = SumCalls(now, 1, 4)
            /\ now # <<>> =>
                   /\ later # <<>>
                   /\ later[Len(later)].args[6] = now[Len(now)].args[6]

\* Capture k is the first _addEventsMultiTouch() call of a two-contact drag:
\* it comes from a move (it has a pan position) and _pointerInput() passed it
\* no previous pan position, which is so after attachControl(), after a
\* contact was lifted during a pinch and after _onLostFocus().
FirstOfDrag(k) ==
    /\ captured[k].kind = "MultiTouch"
    /\ captured[k].args[5] = Null
    /\ captured[k].args[6] # Null

\* C21: every onMultiTouch call that checkInputs() makes for the slot pushed
\* by the first capture of a two-contact drag is given
\* previousPinchSquaredDistance = 0 and previousMultiTouchPanPosition = null.
C21_FirstCallHasNoPrevious ==
    \A i \in 1..Len(delivered) :
        (delivered[i].fn = "onMultiTouch" /\ FirstOfDrag(delivered[i].seq)) =>
            /\ delivered[i].args[3] = 0
            /\ delivered[i].args[5] = Null

\* The capture that pushed the slot which capture k was written to: k
\* itself, or the capture that started the run k was coalesced into.
RECURSIVE SlotOf(_)
SlotOf(k) == IF k > 1 /\ captured[k].merged THEN SlotOf(k - 1) ELSE k

\* Capture k is the _addEventsMultiTouch() call of the POINTERUP branch,
\* which ends a pinch.
EndsPinch(k) ==
    /\ captured[k].kind = "MultiTouch"
    /\ captured[k].args[4] = 0
    /\ captured[k].args[6] = Null

\* C22: the onMultiTouch call that checkInputs() makes for the slot holding
\* the pinch-ending capture of a two-contact drag is given
\* pinchSquaredDistance = 0 and multiTouchPanPosition = null, and a
\* previousMultiTouchPanPosition that is not null.
C22_LastCallEndsPinch ==
    \A i \in 1..Len(delivered) :
        \A k \in 1..Len(captured) :
            (/\ delivered[i].fn = "onMultiTouch"
             /\ EndsPinch(k)
             /\ SlotOf(k) = delivered[i].seq) =>
                /\ delivered[i].args[4] = 0
                /\ delivered[i].args[6] = Null
                /\ delivered[i].args[5] # Null

\* The step is a call of _onLostFocus().
LostFocusStep == nEvents' = nEvents + 1 /\ lastInput' = Blur

\* C23: _onLostFocus() sets both tracked points to null, returns the
\* previous-pinch state (the closure variables of attachControl() and the
\* fields that _addEventsMultiTouch() copies into a new slot) to 0 and null,
\* and calls onLostFocus() before it returns.
C23_LostFocusResets ==
    [][LostFocusStep =>
          /\ _pointA' = Null
          /\ _pointB' = Null
          /\ previousPinchSquaredDistance' = 0
          /\ previousMultiTouchPanPosition' = Null
          /\ _previousPinchSquaredDistance' = 0
          /\ _previousMultiTouchPanPosition' = Null
          /\ calls' = Append(calls, HandlerCall("onLostFocus", 0, <<>>))]_vars

\* The step delivers an event of the given type that _pointerInput() does
\* not drop, outside pointer-lock mode.
Accepted(type) ==
    /\ nEvents' = nEvents + 1
    /\ lastInput'.p.type = type
    /\ ~lastInput'.engine.isInVRExclusivePointerMode
    /\ ~lastInput'.engine.isPointerLock
    /\ type # "POINTERMOVE" =>
           /\ lastInput'.p.event.button \in buttons
           /\ lastInput'.p.event.srcElement

\* C24: no point is tracked after _onLostFocus() and after the last contact
\* was lifted (_pointB is never set without _pointA), and a move that
\* arrives outside pointer-lock mode while no point is tracked calls no
\* _addEvents*(): it writes no slot and no tag, the immediate twin calls no
\* handler, and nothing becomes tracked until a ButtonDown sets _pointA.
C24_UntrackedMoveIgnored ==
    /\ [](_pointA = Null => _pointB = Null)
    /\ [][LostFocusStep => _pointA' = Null]_vars
    /\ [][(Accepted("POINTERMOVE") /\ _pointA = Null) =>
             /\ captured' = captured
             /\ bufs' = bufs
             /\ twin'.q.calls = twin.q.calls
             /\ _pointA' = Null
             /\ _pointB' = Null]_vars
    /\ [][(Accepted("POINTERDOWN") /\ _pointA = Null) => _pointA' # Null]_vars

\* A drag was cut short by _onLostFocus(); the move that followed it was
\* ignored, and checkInputs() called onTouch for the move before the focus
\* loss only.
C24_Witness ==
    /\ lastInput # Null
    /\ lastInput.p.type = "POINTERMOVE"
    /\ _pointA = Null
    /\ Len(twin.q.calls) = 3
    /\ twin.q.calls[2].fn = "onTouch"
    /\ twin.q.calls[3].fn = "onLostFocus"
    /\ AllDrained
    /\ Len(CallsOf(delivered, "onTouch")) = 1

AcceptedLocked ==
    /\ nEvents' = nEvents + 1
    /\ lastInput' # Blur
    /\ ~lastInput'.engine.isInVRExclusivePointerMode
    /\ lastInput'.engine.isPointerLock
    /\ lastInput'.p.type # "POINTERMOVE" => lastInput'.p.event.button \in buttons

\* C26: in pointer-lock mode every event that _pointerInput() accepts,
\* whatever its type, is one _addEventsTouch(null, movementX, movementY)
\* call: it is coalesced into the last Touch slot when that slot's tag is
\* the last tag, and pushes a Touch slot and a tag otherwise; the other four
\* Slot Buffers are left alone, the immediate twin calls onTouch with the
\* same arguments, and _pointA and _pointB are null afterwards.
C26_PointerLockIsTouch ==
    [][AcceptedLocked =>
         \A evt \in {lastInput'.p.event} :
         \A merged \in {LastTagIs(bufs, "_eventsTouch")} :
             /\ captured' = Append(captured,
                                   [kind |-> "Touch",
                                    args |-> <<Null, evt.movementX, evt.movementY>>,
                                    merged |-> merged])
             /\ \A name \in SlotBuffers \ {"_eventsTouch"} : bufs'[name] = bufs[name]
             /\ LastTagIs(bufs', "_eventsTouch")
             /\ GetPushed(bufs'["_eventsTouch"], "point") = Null
             /\ IF merged
                THEN /\ bufs'["_allEvents"] = bufs["_allEvents"]
                     /\ bufs'["_eventsTouch"].length = bufs["_eventsTouch"].length
                     /\ GetPushed(bufs'["_eventsTouch"], "offsetX")
                            = GetPushed(bufs["_eventsTouch"], "offsetX") + evt.movementX
                     /\ GetPushed(bufs'["_eventsTouch"], "offsetY")
                            = GetPushed(bufs["_eventsTouch"], "offsetY") + evt.movementY
                ELSE /\ bufs'["_allEvents"].length
                            = Min(bufs["_allEvents"].length + 1, _maxSize)
                     /\ bufs'["_eventsTouch"].length
                            = Min(bufs["_eventsTouch"].length + 1, _maxSize)
                     /\ GetPushed(bufs'["_eventsTouch"], "offsetX") = evt.movementX
                     /\ GetPushed(bufs'["_eventsTouch"], "offsetY") = evt.movementY
             /\ twin'.q.calls =
                    Append(twin.q.calls,
                           HandlerCall("onTouch", Len(captured'),
                                       <<Null, evt.movementX, evt.movementY>>))
             /\ _pointA' = Null
             /\ _pointB' = Null
             /\ twin'.pointA = Null
             /\ twin'.pointB = Null]_vars

\* A mouse button went down, then two events arrived in pointer-lock mode,
\* the second one a pointerup: the point is no longer tracked and the two
\* events share one Touch slot with the offsets (12, 4).
C26_Witness ==
    /\ lastInput # Null
    /\ lastInput # Blur
    /\ lastInput.engine.isPointerLock
    /\ lastInput.p.type = "POINTERUP"
    /\ Len(heap) = 1
    /\ _pointA = Null
    /\ Len(captured) = 3
    /\ captured[3].kind = "Touch"
    /\ captured[3].merged
    /\ bufs["_eventsTouch"].length = 1
    /\ bufs["_eventsButtonUp"].length = 0
    /\ GetPushed(bufs["_eventsTouch"], "offsetX") = 12
    /\ GetPushed(bufs["_eventsTouch"], "offsetY") = 4

\* The captures lo..hi that pushed a slot and a tag, oldest first.
SlotIndices(lo, hi) ==
    SelectSeq([i \in 1..(hi - lo + 1) |-> lo + i - 1],
              LAMBDA k : ~captured[k].merged)

\* C27: when the first checkInputs() finds that more than 50 captures had
\* pushed a tag, it makes 50 handler calls, which deliver the slots of the
\* 50 newest of those captures in capture order; the onButtonDown and
\* onButtonUp calls among them are given the event of their own capture.
C27_OverflowDeliversNewest ==
    (nFrames = 1 /\ Len(Fresh(1, frameStart)) > _maxSize) =>
        \A h \in {Handlers(calls)} :
        \A newest \in {KeepLast(SlotIndices(1, frameStart), _maxSize)} :
            /\ Len(h) = _maxSize
            /\ \A i \in 1..Len(h) :
                   /\ h[i].seq = newest[i]
                   /\ captured[newest[i]].kind \in {"ButtonDown", "ButtonUp"} =>
                          h[i].args = captured[newest[i]].args

\* C28: of two consecutive onMultiTouch calls made by checkInputs(), the
\* later one, unless its slot was pushed by the first capture of a new drag,
\* is given as previousPinchSquaredDistance and
\* previousMultiTouchPanPosition the pinchSquaredDistance and
\* multiTouchPanPosition that the earlier one was given.
C28_PreviousIsPrecedingCall ==
    \A mt \in {CallsOf(delivered, "onMultiTouch")} :
        \A i \in 1..(Len(mt) - 1) :
            ~FirstOfDrag(mt[i + 1].seq) =>
                /\ mt[i + 1].args[3] = mt[i].args[4]
                /\ mt[i + 1].args[5] = mt[i].args[6]

BothTrackedAnd(point, evt) ==
    IF _pointA # Null /\ _pointB # Null
    THEN Deref(heap, point).pointerId = evt.pointerId
    ELSE FALSE

\* The step is a pointerup that _pointerInput() accepts on an engine
\* without _badOS.
AcceptedLift == Accepted("POINTERUP") /\ ~lastInput'.engine._badOS

\* C30: on a pointerup without _badOS, a pointer that is not a touch leaves
\* both tracked points null.  For a touch: when both points are tracked and
\* the contact is _pointA's, _pointB becomes _pointA and _pointB becomes
\* null; when both are tracked and the contact is _pointB's, _pointB becomes
\* null and _pointA stays; in every other case both become null.
C30_LiftTouchOrMono ==
    [][AcceptedLift =>
         \A evt \in {lastInput'.p.event} :
             IF evt.pointerType # "touch"
             THEN _pointA' = Null /\ _pointB' = Null
             ELSE IF BothTrackedAnd(_pointA, evt)
             THEN _pointA' = _pointB /\ _pointB' = Null
             ELSE IF BothTrackedAnd(_pointB, evt)
             THEN _pointA' = _pointA /\ _pointB' = Null
             ELSE _pointA' = Null /\ _pointB' = Null]_vars

\* Two fingers were down and the first one was lifted: the second finger's
\* point is now _pointA.
C30_Witness ==
    /\ lastInput # Null
    /\ lastInput.p.type = "POINTERUP"
    /\ lastInput.p.event.pointerId = FingerA.pointerId
    /\ ~lastInput.engine._badOS
    /\ Len(heap) = 2
    /\ heap[1].pointerId = FingerA.pointerId
    /\ _pointA = [ref |-> 2]
    /\ heap[2].pointerId = FingerB.pointerId
    /\ _pointB = Null

\* C30 as the specification states it: the three cases apply to every
\* pointer type, and a pointer that is not a touch leaves _pointB null.
C30_LiftAsStated ==
    [][AcceptedLift =>
         \A evt \in {lastInput'.p.event} :
             /\ IF BothTrackedAnd(_pointA, evt)
                THEN _pointA' = _pointB /\ _pointB' = Null
                ELSE IF BothTrackedAnd(_pointB, evt)
                THEN _pointA' = _pointA /\ _pointB' = Null
                ELSE _pointA' = Null /\ _pointB' = Null
             /\ evt.pointerType # "touch" => _pointB' = Null]_vars

\* The Touch captures made so far.
TouchCaptures == SelectSeq(captured, LAMBDA e : e.kind = "Touch")

\* C34: once checkInputs() has drained the queue, and as long as no buffer
\* had to evict an entry, the offsetX and the offsetY of all onTouch calls
\* made by checkInputs() so far add up to the offsetX and the offsetY of all
\* Touch captures made so far, and no more onTouch calls were made than
\* Touch captures.
C34_TouchMotionConserved ==
    (AllDrained /\ ~overflowed) =>
        \A made \in {CallsOf(delivered, "onTouch")} :
        \A given \in {TouchCaptures} :
            /\ SumCalls(made, 1, 2) = SumCalls(given, 1, 2)
            /\ SumCalls(made, 1, 3) = SumCalls(given, 1, 3)
            /\ Len(made) <= Len(given)
            /\ (made = <<>>) = (given = <<>>)

\* Touch captures were coalesced, a capture of another kind was made too,
\* and two checkInputs() calls delivered the motion in fewer onTouch calls
\* than there were Touch captures.
C34_Witness ==
    /\ AllDrained
    /\ ~overflowed
    /\ nFrames = 2
    /\ Len(TouchCaptures) >= 3
    /\ Len(TouchCaptures) < Len(captured)
    /\ \E k \in 1..Len(captured) : captured[k].merged
    /\ Len(CallsOf(delivered, "onTouch")) = 2
    /\ SumCalls(TouchCaptures, 1, 2) # 0
    /\ SumCalls(TouchCaptures, 1, 3) # 0

\* checkInputs() of the immediate twin: the loop started with the twin's
\* buffers.
TwinCheckInputs == DrainFrom(twin.q.bufs)

\* C35: with _defferCallback = false every _addEvents*() call makes one
\* call of the handler of its kind, with its arguments, before it returns
\* and makes no other; the Order Buffer and the Slot Buffers stay as they
\* were constructed; and checkInputs() calls no handler and leaves the
\* buffers as they are.
C35_ImmediateDispatch ==
    /\ [](/\ ~twin.q._defferCallback
          /\ \A name \in RingBuffers : twin.q.bufs[name] = NewRingBuffer
          /\ \A d \in {TwinCheckInputs} :
                 /\ d.calls = <<>>
                 /\ d.bufs = twin.q.bufs)
    /\ [][\A was \in {PointerCalls(twin.q.calls)} :
          \A now \in {PointerCalls(twin'.q.calls)} :
          \A n \in {Len(twin.q.captured)} :
              /\ Len(now) - Len(was) = Len(twin'.q.captured) - n
              /\ SubSeq(now, 1, Len(was)) = was
              /\ \A k \in (n + 1)..Len(twin'.q.captured) :
                     now[Len(was) + k - n] =
                         HandlerCall(HandlerOf(twin'.q.captured[k].kind), k,
                                     twin'.q.captured[k].args)]_vars

\* The immediate twin was given ButtonDown, Touch and MultiTouch captures
\* and has called the three handlers, while the deferred input, given the
\* same, has queued them and called none.
C35_Witness ==
    /\ nFrames = 0
    /\ delivered = <<>>
    /\ \A kind \in {"ButtonDown", "Touch", "MultiTouch"} :
           CallsOf(twin.q.calls, HandlerOf(kind)) # <<>>
    /\ Len(twin.q.calls) = Len(twin.q.captured)
    /\ bufs["_allEvents"].length >= 3

---------------------------------------------------------------------------
(* An input whose handlers read the modifier keys and the pressed buttons, *)
(* as those of FreeCameraPointersInput do.  The host is one mouse whose    *)
(* events carry a shift key that is up or down and a second button that   *)
(* is up or down:                                                          *)
(*   "keys"  the input inherits checkInputs() from the base class;         *)
(*   "free"  the input is a FreeCameraPointersInput, with the             *)
(*           checkInputs() that class defines.                             *)

MaxKeyEvents == 3

\* The bits of _Modifiers that name a key or a button that has to be down.
Down == {"ShiftDown", "AltDown", "CtrlDown", "MetaDown", "MouseButton1Down",
         "MouseButton2Down", "MouseButton3Down"}

\* The bit of the same key or button being up.
UpOf(down) ==
    CASE down = "ShiftDown" -> "ShiftUp"
      [] down = "AltDown" -> "AltUp"
      [] down = "CtrlDown" -> "CtrlUp"
      [] down = "MetaDown" -> "MetaUp"
      [] down = "MouseButton1Down" -> "MouseButton1Up"
      [] down = "MouseButton2Down" -> "MouseButton2Up"
      [] down = "MouseButton3Down" -> "MouseButton3Up"

\* _MouseButtons: whether the bit of the button is set in `pressed`.
ButtonBit(pressed, bit) == (pressed \div bit) % 2 = 1

\* What the fields of the input m say of the key or button.
IsDown(m, down) ==
    CASE down = "ShiftDown" -> m.shiftKey
      [] down = "AltDown" -> m.altKey
      [] down = "CtrlDown" -> m.ctrlKey
      [] down = "MetaDown" -> m.metaKey
      [] down = "MouseButton1Down" -> ButtonBit(m.buttonsPressed, 1)
      [] down = "MouseButton2Down" -> ButtonBit(m.buttonsPressed, 2)
      [] down = "MouseButton3Down" -> ButtonBit(m.buttonsPressed, 4)

\* FreeCameraPointersInput._modifiersMatch(), with the bit mask as the
\* set of its bits and the fields it reads as m.
_modifiersMatch(modifiers, m) ==
    \A down \in Down :
        \/ (down \in modifiers) = (UpOf(down) \in modifiers)
        \/ (down \in modifiers) = IsDown(m, down)

\* The entries the constructor of FreeCameraPointersInput maps to Touch,
\* in the order they were set.
_pointerToCamera ==
    << [modifiers |-> {"XAxis", "ShiftUp", "MouseButton2Up"},
        value |-> <<"RotateRelative", "Y">>],
       [modifiers |-> {"YAxis", "ShiftUp", "MouseButton2Up"},
        value |-> <<"RotateRelative", "X">>],
       [modifiers |-> {"YAxis", "ShiftDown", "MouseButton2Up"},
        value |-> <<"MoveRelative", "Y">>],
       [modifiers |-> {"XAxis", "ShiftDown", "MouseButton2Up"},
        value |-> <<"MoveRelative", "X">>],
       [modifiers |-> {"YAxis", "MouseButton2Down"},
        value |-> <<"MoveRelative", "Y">>],
       [modifiers |-> {"XAxis", "MouseButton2Down"},
        value |-> <<"MoveRelative", "X">>] >>

\* _moveRelative, _rotateRelative and _moveScene after construction and
\* after checkInputs().
NoOffsets ==
    [MoveRelative |-> [X |-> 0, Y |-> 0, Z |-> 0],
     RotateRelative |-> [X |-> 0, Y |-> 0, Z |-> 0],
     MoveScene |-> [X |-> 0, Y |-> 0, Z |-> 0]]

\* FreeCameraPointersInput._updateCameraProperty()
_updateCameraProperty(offsets, delta, cameraProperty, coordinate) ==
    IF delta = 0
    THEN offsets
    ELSE [offsets EXCEPT ![cameraProperty][coordinate] = @ + delta]

\* FreeCameraPointersInput._updateCameraPropertyWrapper()
_updateCameraPropertyWrapper(offsets, entry, m, deltaX, deltaY) ==
    IF ~_modifiersMatch(entry.modifiers, m)
    THEN offsets
    ELSE LET x == IF "XAxis" \in entry.modifiers
                  THEN _updateCameraProperty(offsets, deltaX,
                                             entry.value[1], entry.value[2])
                  ELSE offsets
         IN  IF "YAxis" \in entry.modifiers
             THEN _updateCameraProperty(x, deltaY,
                                        entry.value[1], entry.value[2])
             ELSE x

\* FreeCameraPointersInput.onTouch(), called on an input whose offsets are
\* zero and whose modifier fields are m: the offsets it leaves.
RECURSIVE ForEachTouchInput(_, _, _, _, _)
ForEachTouchInput(offsets, i, m, deltaX, deltaY) ==
    IF i > Len(_pointerToCamera)
    THEN offsets
    ELSE ForEachTouchInput(
             _updateCameraPropertyWrapper(offsets, _pointerToCamera[i], m,
                                          deltaX, deltaY),
             i + 1, m, deltaX, deltaY)

FreeCameraOnTouch(m, deltaX, deltaY) ==
    ForEachTouchInput(NoOffsets, 1, m, deltaX, deltaY)

KeyPositions == {Origin, <<2, 4>>}

\* The states of the shift key and of the buttons that the events of the
\* host carry: in "free", where no handler is called, they are left up.
ShiftStates == IF scenario = "keys" THEN BOOLEAN ELSE {FALSE}
ButtonStates == IF scenario = "keys" THEN {0, 2} ELSE {0}

\* One event of the mouse, with the shift key and the second button up or
\* down.
KeyedPointer ==
    /\ scenario \in {"keys", "free"}
    /\ nEvents < MaxKeyEvents
    /\ \E type \in {"POINTERDOWN", "POINTERUP", "POINTERMOVE"},
          pos \in KeyPositions, shift \in ShiftStates,
          pressed \in ButtonStates :
         PointerInput([type |-> type,
                       event |-> [Event(Mouse, 0, pos, <<0, 0>>, TRUE)
                                     EXCEPT !.shiftKey = shift,
                                            !.buttons = pressed]],
                      Engine(FALSE, FALSE, FALSE))

\* A frame of the render loop of an input that inherits checkInputs().
KeyedFrame ==
    /\ scenario = "keys"
    /\ bufs["_allEvents"].length > 0
    /\ CheckInputs

\* checkInputs() of FreeCameraPointersInput.  The call of
\* super.checkInputs() is commented out, so no handler is called and the
\* buffers are left alone; the offsets it applies to the camera and clears
\* are written by onTouch() only, and are zero.
FreeCheckInputs ==
    /\ scenario = "free"
    /\ calls' = <<>>
    /\ skipped' = <<>>
    /\ lastFrameStart' = frameStart
    /\ frameStart' = Len(captured)
    /\ nFrames' = IF nFrames < MaxFrames THEN nFrames + 1 ELSE nFrames
    /\ UNCHANGED <<bufs, heap, _pointA, _pointB, previousPinchSquaredDistance,
                   previousMultiTouchPanPosition, _previousPinchSquaredDistance,
                   _previousMultiTouchPanPosition, _modifiers, _defferCallback,
                   _observer, twin, captured, nEvents, delivered, overflowed,
                   detached, lastInput, noticed, scenario>>
    /\ UNCHANGED ringVars

InitKeys ==
    /\ InitInput
    /\ scenario = "keys"
    /\ rb = NewRingBuffer
    /\ fifo = <<>>
    /\ lastPop = Null
    /\ nPush = 0
    /\ nPop = 0
    /\ evicted = FALSE

NextKeys ==
    \/ KeyedPointer
    \/ KeyedFrame

SpecKeys == InitKeys /\ [][NextKeys]_vars

InitFree ==
    /\ InitInput
    /\ scenario = "free"
    /\ rb = NewRingBuffer
    /\ fifo = <<>>
    /\ lastPop = Null
    /\ nPush = 0
    /\ nPop = 0
    /\ evicted = FALSE

NextFree ==
    \/ KeyedPointer
    \/ FreeCheckInputs

\* The render loop calls checkInputs() once per frame, for ever.
SpecFree == InitFree /\ [][NextFree]_vars /\ WF_vars(FreeCheckInputs)

\* The step is a checkInputs() that called handlers.
DrainedStep == nFrames' = nFrames + 1 /\ calls' # <<>>

\* C36: the modifier keys and the pressed buttons that the fields of the
\* input hold while checkInputs() calls a handler are those of the event
\* that caused the _addEvents*() call whose payload the handler is given,
\* so that onTouch() of FreeCameraPointersInput moves the camera property
\* that the keys held during the move select.
C36_HandlerSeesCaptureModifiers ==
    [][DrainedStep =>
         \A k \in 1..Len(calls') :
             ~calls'[k].obs =>
                 /\ _modifiers = noticed[calls'[k].seq]
                 /\ calls'[k].fn = "onTouch" =>
                        FreeCameraOnTouch(_modifiers, calls'[k].args[2],
                                          calls'[k].args[3])
                            = FreeCameraOnTouch(noticed[calls'[k].seq],
                                                calls'[k].args[2],
                                                calls'[k].args[3])]_vars

\* C37: under a render loop that never stops, whenever Touch captures are
\* waiting, onTouch is called for them: the number of Touch captures that
\* took a slot of their own is eventually matched by the number of onTouch
\* calls.
C37_TouchEventuallyDelivered ==
    \A n \in 1..MaxKeyEvents :
        (Len(SelectSeq(TouchCaptures, LAMBDA e : ~e.merged)) >= n)
            ~> (Len(CallsOf(delivered, "onTouch")) >= n)

---------------------------------------------------------------------------
(* The variant of src/Cameras/Inputs/BaseCameraPointersInput.ts: the ring  *)
(* buffers store the event objects they are given, there is no immediate  *)
(* mode, and _addEventsTouch() has a branch for a Touch that follows a     *)
(* Touch.  The host is a mouse with one button on an engine that is in    *)
(* neither pointer lock nor VR exclusive pointer mode, so _pointB stays    *)
(* null and no pinch is ever open.                                         *)

MaxTsEvents == 4

TsPositions == {Origin, <<2, 4>>, <<6, 6>>}

\* The label given to each buffer at construction.
Ts_label(name) ==
    CASE name = "_allEvents" -> "_allEvents"
      [] name = "_eventsButtonDown" -> "ButtonDown"
      [] name = "_eventsButtonUp" -> "ButtonUp"
      [] name = "_eventsDoubleTap" -> "DoubleTap"
      [] name = "_eventsTouch" -> "Touch"
      [] name = "_eventsMultiTouch" -> "MultiTouch"

\* new _EventRingBuffer(label)
Ts_NewRingBuffer ==
    [head |-> 0, tail |-> 0, length |-> 0, container |-> <<>>,
     lastPushed |-> Undefined]

\* _EventRingBuffer._wrapPointers()
Ts_wrapPointers(b) ==
    LET h == IF b.head >= Len(b.container) THEN 0 ELSE b.head
        t == IF b.tail >= Len(b.container) THEN 0 ELSE b.tail
    IN  [b EXCEPT !.head = h, !.tail = t]

\* _EventRingBuffer.push(event)
Ts_push(b, event) ==
    LET w == Ts_wrapPointers([b EXCEPT !.lastPushed = event])
    IN  IF w.head = w.tail /\ (w.length > 0 \/ Len(w.container) = 0)
        THEN [w EXCEPT !.container = InsertAt(w.container, w.head, event),
                       !.length = w.length + 1,
                       !.head = w.head + 1,
                       !.tail = w.tail + 1]
        ELSE [w EXCEPT !.container[w.head + 1] = event,
                       !.head = w.head + 1,
                       !.length = w.length + 1]

\* _EventRingBuffer.pop(): the buffer it leaves and the value it returns.
Ts_pop(b) ==
    IF b.length <= 0
    THEN b
    ELSE LET w == Ts_wrapPointers(b)
         IN  [w EXCEPT !.container[w.tail + 1] = Undefined,
                       !.tail = w.tail + 1,
                       !.length = w.length - 1]

Ts_popped(b) ==
    IF b.length <= 0
    THEN Undefined
    ELSE b.container[Ts_wrapPointers(b).tail + 1]

\* The five _addEvents*() methods.  q holds the buffers and the history of
\* captures; every event is given the number of its capture.
Ts_queue(q, name, event) ==
    [q EXCEPT !.bufs =
        [@ EXCEPT ![name] = Ts_push(@, event),
                  !["_allEvents"] = Ts_push(@, BufRef(name))]]

Ts_addEventsButtonDown(q0, event) ==
    LET q == Record(q0, "ButtonDown", <<event.event>>, FALSE)
    IN  Ts_queue(q, "_eventsButtonDown",
                 [event |-> event.event, seq |-> Len(q.captured)])

Ts_addEventsButtonUp(q0, event) ==
    LET q == Record(q0, "ButtonUp", <<event.event>>, FALSE)
    IN  Ts_queue(q, "_eventsButtonUp",
                 [event |-> event.event, seq |-> Len(q.captured)])

\* this._allEvents.lastPushed.label === this._eventsTouch.label
Ts_lastPushedIsTouch(bs) ==
    /\ bs["_allEvents"].length > 0
    /\ Ts_label(bs["_allEvents"].lastPushed.ringBuffer) = Ts_label("_eventsTouch")

\* _addEventsTouch(): the branch taken when the last tag pushed is that of
\* the Touch buffer is empty.
Ts_addEventsTouch(q0, event) ==
    LET merged == Ts_lastPushedIsTouch(q0.bufs)
        q == Record(q0, "Touch", <<event.point, event.offsetX, event.offsetY>>,
                    merged)
    IN  IF merged
        THEN q
        ELSE Ts_queue(q, "_eventsTouch",
                      [point |-> event.point, offsetX |-> event.offsetX,
                       offsetY |-> event.offsetY, seq |-> Len(q.captured)])

\* The handler call and the notification that checkInputs() makes for an
\* event popped from the buffer `name`.
Ts_Dispatch(d, name, event) ==
    LET kind == KindOfBuffer(name)
    IN  [d EXCEPT !.calls = @ \o
            <<HandlerCall(HandlerOf(kind), event.seq, HandlerArgs(kind, event)),
              ObserverCall(ObservableOf(kind), event.seq, event)>>]

\* checkInputs(): the loop, started with d.
RECURSIVE Ts_checkInputs(_)
Ts_checkInputs(d) ==
    IF d.done \/ d.bufs["_allEvents"].length <= 0
    THEN d
    ELSE LET eventBuffer == Ts_popped(d.bufs["_allEvents"])
             b1 == [d.bufs EXCEPT !["_allEvents"] = Ts_pop(@)]
         IN  IF eventBuffer = Undefined \/ eventBuffer = Null
             THEN [d EXCEPT !.bufs = b1, !.done = TRUE]
             ELSE LET name == eventBuffer.ringBuffer
                      event == Ts_popped(b1[name])
                      b2 == [b1 EXCEPT ![name] = Ts_pop(@)]
                  IN  IF event = Undefined
                      THEN Ts_checkInputs([d EXCEPT !.bufs = b2])
                      ELSE Ts_checkInputs(
                               Ts_Dispatch([d EXCEPT !.bufs = b2], name, event))

\* _pointerInput() as far as the one-button mouse takes it: c holds the
\* queue, the heap and _pointA.
Ts_pointerInput(c, p) ==
    LET evt == p.event
        c1 == [c EXCEPT !.modifiers =
                  [altKey |-> evt.altKey, ctrlKey |-> evt.ctrlKey,
                   metaKey |-> evt.metaKey, shiftKey |-> evt.shiftKey,
                   buttonsPressed |-> evt.buttons]]
    IN  IF p.type # "POINTERMOVE" /\ evt.button \notin buttons
        THEN c
        ELSE IF p.type = "POINTERDOWN" /\ evt.srcElement
        THEN LET point == [x |-> evt.clientX, y |-> evt.clientY,
                           pointerId |-> evt.pointerId,
                           type |-> evt.pointerType]
                 c2 == IF c1.pointA = Null
                       THEN [c1 EXCEPT !.heap = Append(@, point),
                                       !.pointA = [ref |-> Len(c1.heap) + 1]]
                       ELSE c1
             IN  [c2 EXCEPT !.q = Ts_addEventsButtonDown(c2.q, [event |-> evt])]
        ELSE IF p.type = "POINTERUP" /\ evt.srcElement
        THEN [c1 EXCEPT !.pointA = Null,
                        !.q = Ts_addEventsButtonUp(c1.q, [event |-> evt])]
        ELSE IF p.type = "POINTERMOVE" /\ c1.pointA # Null
        THEN LET a == Deref(c1.heap, c1.pointA)
                 offsetX == evt.clientX - a.x
                 offsetY == evt.clientY - a.y
             IN  [c1 EXCEPT
                     !.q = Ts_addEventsTouch(c1.q,
                               [point |-> c1.pointA, offsetX |-> offsetX,
                                offsetY |-> offsetY]),
                     !.heap[c1.pointA.ref] =
                         [@ EXCEPT !.x = evt.clientX, !.y = evt.clientY]]
        ELSE c1

\* The host delivers one event of the mouse.
TsPointer ==
    /\ scenario = "ts"
    /\ nEvents < MaxTsEvents
    /\ \E type \in {"POINTERDOWN", "POINTERUP", "POINTERMOVE"},
          pos \in TsPositions :
         /\ type = "POINTERDOWN" => _pointA = Null
         /\ \A c \in {Ts_pointerInput(
                          [q |-> [bufs |-> bufs, captured |-> captured],
                           heap |-> heap, pointA |-> _pointA,
                           modifiers |-> _modifiers],
                          [type |-> type,
                           event |-> Event(Mouse, 0, pos, <<0, 0>>, TRUE)])} :
                /\ bufs' = c.q.bufs
                /\ captured' = c.q.captured
                /\ heap' = c.heap
                /\ _pointA' = c.pointA
                /\ _modifiers' = c.modifiers
                /\ noticed' = noticed \o
                       [k \in 1..(Len(c.q.captured) - Len(captured))
                           |-> c.modifiers]
    /\ nEvents' = nEvents + 1
    /\ UNCHANGED <<_pointB, previousPinchSquaredDistance,
                   previousMultiTouchPanPosition, _previousPinchSquaredDistance,
                   _previousMultiTouchPanPosition, _defferCallback, _observer,
                   twin, calls, frameStart, lastFrameStart, nFrames, delivered,
                   skipped, overflowed, detached, lastInput, scenario>>
    /\ UNCHANGED ringVars

\* A frame of the render loop: checkInputs().
TsFrame ==
    /\ scenario = "ts"
    /\ nFrames < MaxFrames
    /\ bufs["_allEvents"].length > 0
    /\ \A d \in {Ts_checkInputs([bufs |-> bufs, calls |-> <<>>,
                                  done |-> FALSE])} :
           /\ bufs' = d.bufs
           /\ calls' = d.calls
           /\ delivered' = delivered \o SelectSeq(d.calls, LAMBDA c : ~c.obs)
    /\ lastFrameStart' = frameStart
    /\ frameStart' = Len(captured)
    /\ nFrames' = nFrames + 1
    /\ UNCHANGED <<heap, _pointA, _pointB, previousPinchSquaredDistance,
                   previousMultiTouchPanPosition, _previousPinchSquaredDistance,
                   _previousMultiTouchPanPosition, _modifiers, _defferCallback,
                   _observer, twin, captured, nEvents, skipped, overflowed,
                   detached, lastInput, noticed, scenario>>
    /\ UNCHANGED ringVars

InitTs ==
    /\ bufs = [name \in RingBuffers |-> Ts_NewRingBuffer]
    /\ heap = <<>>
    /\ _pointA = Null
    /\ _pointB = Null
    /\ previousPinchSquaredDistance = 0
    /\ previousMultiTouchPanPosition = Null
    /\ _previousPinchSquaredDistance = 0
    /\ _previousMultiTouchPanPosition = Null
    /\ _modifiers = NoModifiers
    /\ _defferCallback = TRUE
    /\ _observer = Observer
    /\ twin = Null
    /\ delivered = <<>>
    /\ skipped = <<>>
    /\ overflowed = FALSE
    /\ detached = <<>>
    /\ calls = <<>>
    /\ captured = <<>>
    /\ frameStart = 0
    /\ lastFrameStart = 0
    /\ nEvents = 0
    /\ nFrames = 0
    /\ lastInput = Null
    /\ noticed = <<>>
    /\ scenario = "ts"
    /\ rb = NewRingBuffer
    /\ fifo = <<>>
    /\ lastPop = Null
    /\ nPush = 0
    /\ nPop = 0
    /\ evicted = FALSE

NextTs ==
    \/ TsPointer
    \/ TsFrame

SpecTs == InitTs /\ [][NextTs]_vars

\* C38: once checkInputs() has drained the queue, the offsetX and the
\* offsetY of all onTouch calls made so far add up to those of all Touch
\* captures made so far, those that found the tag of the Touch buffer
\* pushed last included.
C38_MergedTouchConserved ==
    AllDrained =>
        \A made \in {CallsOf(delivered, "onTouch")} :
        \A given \in {TouchCaptures} :
            /\ SumCalls(made, 1, 2) = SumCalls(given, 1, 2)
            /\ SumCalls(made, 1, 3) = SumCalls(given, 1, 3)

---------------------------------------------------------------------------
(* The indexed-array variant: every kind has an array of events and a     *)
(* count of the entries of the array in use this frame; _allEvents is a   *)
(* ring buffer of {index, eventCollection} entries.  The host is the      *)
(* one-button mouse, which also double taps.                               *)

MaxIxEvents == 3

\* The array and the count of one kind after construction.
Ix_NewCollection == [items |-> <<>>, count |-> 0]

\* new _EventRingBuffer()
Ix_NewRingBuffer == [head |-> 0, tail |-> 0, length |-> 0, container |-> <<>>]

\* _EventRingBuffer.push(event)
Ix_push(b, event) ==
    LET h == IF b.head >= Len(b.container) THEN 0 ELSE b.head
        t == IF b.tail >= Len(b.container) THEN 0 ELSE b.tail
    IN  IF h = t /\ (b.length > 0 \/ Len(b.container) = 0)
        THEN [b EXCEPT !.container = InsertAt(b.container, h, event),
                       !.length = b.length + 1,
                       !.head = h + 1,
                       !.tail = t + 1]
        ELSE [b EXCEPT !.container[h + 1] = event,
                       !.head = h + 1,
                       !.tail = t,
                       !.length = b.length + 1]

\* _EventRingBuffer.pop(): the value it returns.  Reading _container at
\* an index that is not in the array gives undefined.
Ix_popped(b) ==
    IF b.length <= 0
    THEN Undefined
    ELSE IF b.tail < Len(b.container)
    THEN b.container[b.tail + 1]
    ELSE Undefined

\* _EventRingBuffer.pop(): the buffer it leaves.  Assigning null at an
\* index that is not in the array makes the array longer.
Ix_pop(b) ==
    IF b.length <= 0
    THEN b
    ELSE [b EXCEPT
             !.tail = IF b.tail + 1 >= Len(b.container) THEN 0 ELSE b.tail + 1,
             !.length = b.length - 1,
             !.container =
                 IF b.tail < Len(b.container)
                 THEN [@ EXCEPT ![b.tail + 1] = Null]
                 ELSE @ \o [k \in 1..(b.tail - Len(@)) |-> Undefined]
                        \o <<Null>>]

\* The entries held by the buffer: the slots that pop() has not set to
\* null.
Ix_Queued(b) ==
    SelectSeq(b.container, LAMBDA e : e # Null /\ e # Undefined)

\* array[index] = event, or array.push(event) when index is array.length
Ix_store(items, index, event) ==
    IF index >= Len(items)
    THEN Append(items, event)
    ELSE [items EXCEPT ![index + 1] = event]

\* _pushEvent() of the entry that names the array and the index; seq is
\* the number of the capture.
Ix_pushEvent(bs, name, index, seq) ==
    [bs EXCEPT !["_allEvents"] =
        Ix_push(@, [index |-> index, eventCollection |-> BufRef(name),
                    seq |-> seq])]

\* _pushEventButtonDown(), _pushEventButtonUp() and _pushEventTouch():
\* store at the count, queue the count as the index, increment the count.
Ix_pushEventCounted(q, name, event) ==
    LET c == q.bufs[name]
        b1 == [q.bufs EXCEPT ![name] =
                  [items |-> Ix_store(c.items, c.count, event),
                   count |-> c.count + 1]]
    IN  [q EXCEPT !.bufs = Ix_pushEvent(b1, name, c.count, event.seq)]

Ix_pushEventButtonDown(q0, event) ==
    LET q == Record(q0, "ButtonDown", <<event.event>>, FALSE)
    IN  Ix_pushEventCounted(q, "_eventsButtonDown",
                            [event |-> event.event, seq |-> Len(q.captured)])

Ix_pushEventButtonUp(q0, event) ==
    LET q == Record(q0, "ButtonUp", <<event.event>>, FALSE)
    IN  Ix_pushEventCounted(q, "_eventsButtonUp",
                            [event |-> event.event, seq |-> Len(q.captured)])

Ix_pushEventTouch(q0, event) ==
    LET q == Record(q0, "Touch", <<event.point, event.offsetX, event.offsetY>>,
                    FALSE)
    IN  Ix_pushEventCounted(q, "_eventsTouch",
                            [point |-> event.point, offsetX |-> event.offsetX,
                             offsetY |-> event.offsetY,
                             seq |-> Len(q.captured)])

\* _pushEventDoubleTap(): when the event is appended to the array the
\* count is incremented before it is queued as the index, and once more
\* after.
Ix_pushEventDoubleTap(q0, event) ==
    LET q == Record(q0, "DoubleTap", <<event.type>>, FALSE)
        c == q.bufs["_eventsDoubleTap"]
        typed == [type |-> event.type, seq |-> Len(q.captured)]
        count == IF c.count >= Len(c.items) THEN c.count + 1 ELSE c.count
        b1 == [q.bufs EXCEPT !["_eventsDoubleTap"] =
                  [items |-> Ix_store(c.items, c.count, typed),
                   count |-> count + 1]]
    IN  [q EXCEPT !.bufs = Ix_pushEvent(b1, "_eventsDoubleTap", count,
                                        typed.seq)]

\* The TypeError of reading a property of undefined, as an entry of the
\* history of calls.
Thrown == [fn |-> "TypeError", obs |-> FALSE, seq |-> 0, args |-> <<>>]

\* checkInputs(): the loop, started with d.  It ends when _allEvents is
\* empty, at `break`, or with the TypeError of an index that is not in
\* the array.
RECURSIVE Ix_loop(_)
Ix_loop(d) ==
    IF d.done \/ d.threw \/ d.bufs["_allEvents"].length <= 0
    THEN d
    ELSE LET event == Ix_popped(d.bufs["_allEvents"])
             b1 == [d.bufs EXCEPT !["_allEvents"] = Ix_pop(@)]
         IN  IF event = Undefined \/ event = Null
             THEN [d EXCEPT !.bufs = b1, !.done = TRUE]
             ELSE LET name == event.eventCollection.ringBuffer
                      items == b1[name].items
                      kind == KindOfBuffer(name)
                  IN  IF event.index >= Len(items)
                      THEN [d EXCEPT !.bufs = b1, !.threw = TRUE,
                                     !.calls = Append(@, Thrown)]
                      ELSE LET exactEvent == items[event.index + 1]
                           IN  Ix_loop([d EXCEPT
                                   !.bufs = b1,
                                   !.calls = @ \o
                                       <<HandlerCall(HandlerOf(kind),
                                             exactEvent.seq,
                                             HandlerArgs(kind, exactEvent)),
                                         ObserverCall(ObservableOf(kind),
                                             exactEvent.seq, exactEvent)>>])

\* checkInputs(): the counts are reset after the loop, which a TypeError
\* does not reach.
Ix_checkInputs(bs) ==
    LET d == Ix_loop([bufs |-> bs, calls |-> <<>>, done |-> FALSE,
                      threw |-> FALSE])
    IN  IF d.threw
        THEN d
        ELSE [d EXCEPT !.bufs =
                 [name \in RingBuffers |->
                     IF name = "_allEvents"
                     THEN d.bufs[name]
                     ELSE [d.bufs[name] EXCEPT !.count = 0]]]

\* _pointerInput() as far as the one-button mouse takes it.
Ix_pointerInput(c, p) ==
    LET evt == p.event
        c1 == [c EXCEPT !.modifiers =
                  [altKey |-> evt.altKey, ctrlKey |-> evt.ctrlKey,
                   metaKey |-> evt.metaKey, shiftKey |-> evt.shiftKey,
                   buttonsPressed |-> evt.buttons]]
    IN  IF p.type # "POINTERMOVE" /\ evt.button \notin buttons
        THEN c
        ELSE IF p.type = "POINTERDOWN" /\ evt.srcElement
        THEN LET point == [x |-> evt.clientX, y |-> evt.clientY,
                           pointerId |-> evt.pointerId,
                           type |-> evt.pointerType]
                 c2 == IF c1.pointA = Null
                       THEN [c1 EXCEPT !.heap = Append(@, point),
                                       !.pointA = [ref |-> Len(c1.heap) + 1]]
                       ELSE c1
             IN  [c2 EXCEPT !.q = Ix_pushEventButtonDown(c2.q, [event |-> evt])]
        ELSE IF p.type = "POINTERDOUBLETAP"
        THEN [c1 EXCEPT !.q = Ix_pushEventDoubleTap(c1.q,
                                  [type |-> evt.pointerType])]
        ELSE IF p.type = "POINTERUP" /\ evt.srcElement
        THEN [c1 EXCEPT !.pointA = Null,
                        !.q = Ix_pushEventButtonUp(c1.q, [event |-> evt])]
        ELSE IF p.type = "POINTERMOVE" /\ c1.pointA # Null
        THEN LET a == Deref(c1.heap, c1.pointA)
                 offsetX == evt.clientX - a.x
                 offsetY == evt.clientY - a.y
             IN  [c1 EXCEPT
                     !.q = Ix_pushEventTouch(c1.q,
                               [point |-> c1.pointA, offsetX |-> offsetX,
                                offsetY |-> offsetY]),
                     !.heap[c1.pointA.ref] =
                         [@ EXCEPT !.x = evt.clientX, !.y = evt.clientY]]
        ELSE c1

\* The host delivers one event of the mouse.
IxPointer ==
    /\ scenario = "ix"
    /\ nEvents < MaxIxEvents
    /\ \E type \in {"POINTERDOWN", "POINTERUP", "POINTERMOVE",
                    "POINTERDOUBLETAP"},
          pos \in KeyPositions :
         /\ type = "POINTERDOWN" => _pointA = Null
         /\ type # "POINTERMOVE" => pos = Origin
         /\ \A c \in {Ix_pointerInput(
                          [q |-> [bufs |-> bufs, captured |-> captured],
                           heap |-> heap, pointA |-> _pointA,
                           modifiers |-> _modifiers],
                          [type |-> type,
                           event |-> Event(Mouse, 0, pos, <<0, 0>>, TRUE)])} :
                /\ bufs' = c.q.bufs
                /\ captured' = c.q.captured
                /\ heap' = c.heap
                /\ _pointA' = c.pointA
                /\ _modifiers' = c.modifiers
                /\ noticed' = noticed \o
                       [k \in 1..(Len(c.q.captured) - Len(captured))
                           |-> c.modifiers]
    /\ nEvents' = nEvents + 1
    /\ UNCHANGED <<_pointB, previousPinchSquaredDistance,
                   previousMultiTouchPanPosition, _previousPinchSquaredDistance,
                   _previousMultiTouchPanPosition, _defferCallback, _observer,
                   twin, calls, frameStart, lastFrameStart, nFrames, delivered,
                   skipped, overflowed, detached, lastInput, scenario>>
    /\ UNCHANGED ringVars

\* A frame of the render loop: checkInputs().
IxFrame ==
    /\ scenario = "ix"
    /\ nFrames < MaxFrames
    /\ captured # <<>>
    /\ \A d \in {Ix_checkInputs(bufs)} :
           /\ bufs' = d.bufs
           /\ calls' = d.calls
           /\ delivered' = delivered \o
                  SelectSeq(d.calls, LAMBDA c : ~c.obs /\ c # Thrown)
    /\ lastFrameStart' = frameStart
    /\ frameStart' = Len(captured)
    /\ nFrames' = nFrames + 1
    /\ UNCHANGED <<heap, _pointA, _pointB, previousPinchSquaredDistance,
                   previousMultiTouchPanPosition, _previousPinchSquaredDistance,
                   _previousMultiTouchPanPosition, _modifiers, _defferCallback,
                   _observer, twin, captured, nEvents, skipped, overflowed,
                   detached, lastInput, noticed, scenario>>
    /\ UNCHANGED ringVars

InitIx ==
    /\ bufs = [name \in RingBuffers |->
                  IF name = "_allEvents" THEN Ix_NewRingBuffer
                                         ELSE Ix_NewCollection]
    /\ heap = <<>>
    /\ _pointA = Null
    /\ _pointB = Null
    /\ previousPinchSquaredDistance = 0
    /\ previousMultiTouchPanPosition = Null
    /\ _previousPinchSquaredDistance = 0
    /\ _previousMultiTouchPanPosition = Null
    /\ _modifiers = NoModifiers
    /\ _defferCallback = TRUE
    /\ _observer = Observer
    /\ twin = Null
    /\ delivered = <<>>
    /\ skipped = <<>>
    /\ overflowed = FALSE
    /\ detached = <<>>
    /\ calls = <<>>
    /\ captured = <<>>
    /\ frameStart = 0
    /\ lastFrameStart = 0
    /\ nEvents = 0
    /\ nFrames = 0
    /\ lastInput = Null
    /\ noticed = <<>>
    /\ scenario = "ix"
    /\ rb = NewRingBuffer
    /\ fifo = <<>>
    /\ lastPop = Null
    /\ nPush = 0
    /\ nPop = 0
    /\ evicted = FALSE

NextIx ==
    \/ IxPointer
    \/ IxFrame

SpecIx == InitIx /\ [][NextIx]_vars

\* The DoubleTap captures made so far.
DoubleTapCaptures == SelectSeq(captured, LAMBDA e : e.kind = "DoubleTap")

\* C39: every entry waiting in _allEvents names an index at which the
\* array of its kind holds the event stored by the capture that queued
\* the entry; checkInputs() never ends with a TypeError; and once
\* checkInputs() has returned with nothing captured since, onDoubleTap has
\* been called once for every DoubleTap capture, with the type captured.
C39_IndexRefersToStoredEvent ==
    /\ \A waiting \in {Ix_Queued(bufs["_allEvents"])} :
       \A k \in 1..Len(waiting) :
           \A items \in {bufs[waiting[k].eventCollection.ringBuffer].items} :
               /\ waiting[k].index < Len(items)
               /\ items[waiting[k].index + 1].seq = waiting[k].seq
    /\ \A k \in 1..Len(calls) : calls[k] # Thrown
    /\ AllDrained =>
           \A made \in {CallsOf(delivered, "onDoubleTap")} :
               /\ Len(made) = Len(DoubleTapCaptures)
               /\ \A k \in 1..Len(made) :
                      made[k].args = DoubleTapCaptures[k].args

---------------------------------------------------------------------------
(* A ring buffer on its own, as the unit tests of the "primatives" drive   *)
(* it: push() followed by a write of `pushed.label`, and pop().            *)

InitRing ==
    /\ InitInput
    /\ scenario = "mouse"
    /\ rb = NewRingBuffer
    /\ fifo = <<>>
    /\ lastPop = Null
    /\ nPush = 0
    /\ nPop = 0
    /\ evicted = FALSE

RingPush ==
    /\ nPush < MaxRingPush
    /\ nPop = 0 \/ nPush < MaxMixedPush
    /\ rb' = SetPushed(push(rb), "label", nPush + 1)
    /\ fifo' = IF Len(fifo) >= _maxSize
               THEN Append(Tail(fifo), nPush + 1)
               ELSE Append(fifo, nPush + 1)
    /\ evicted' = (evicted \/ Len(fifo) >= _maxSize)
    /\ nPush' = nPush + 1
    /\ UNCHANGED <<lastPop, nPop>>
    /\ UNCHANGED inputVars

RingPop ==
    /\ nPop < nPush + MaxEmptyPop
    /\ rb' = pop(rb)
    /\ lastPop' = popped(rb)
    /\ fifo' = IF fifo = <<>> THEN fifo ELSE Tail(fifo)
    /\ nPop' = nPop + 1
    /\ UNCHANGED <<nPush, evicted>>
    /\ UNCHANGED inputVars

NextRing == RingPush \/ RingPop

SpecRing == InitRing /\ [][NextRing]_vars

Labels(objs) == [i \in 1..Len(objs) |-> objs[i].label]

\* C7: once more than 50 entries have been pushed and none popped, the
\* buffer holds 50 entries, popping them returns the 50 most recently pushed
\* ones, oldest first, and 50 pops leave the buffer empty.
C7_OverflowKeepsNewest ==
    (nPop = 0 /\ nPush > _maxSize) =>
        /\ rb.length = _maxSize
        /\ Labels(PopAll(rb)) = [i \in 1.._maxSize |-> nPush - _maxSize + i]
        /\ PopN(rb, _maxSize).length = 0

C7_Witness ==
    /\ nPush > _maxSize + 1
    /\ nPop = _maxSize
    /\ rb.length = 0
    /\ lastPop # Undefined
    /\ lastPop.label = nPush

\* C8: as long as no push had to evict an entry, every pop() returns the
\* oldest entry that was pushed and not yet popped.
C8_FifoWithinCapacity ==
    [][(nPop' = nPop + 1 /\ ~evicted /\ fifo # <<>>) =>
          (lastPop' # Undefined /\ lastPop'.label = Head(fifo))]_ringVars

\* Head has wrapped past the end of recycled storage while older entries are
\* still unconsumed, after storage grew with entries in it.
C8_Witness ==
    /\ ~evicted
    /\ nPop >= 2
    /\ Len(rb.container) >= 3
    /\ Len(rb.container) < nPush
    /\ rb.length >= 2
    /\ rb.head < rb.tail
    /\ lastPop # Undefined
    /\ lastPop.label = nPop

\* C10: pop() on an empty buffer returns undefined and changes nothing, and
\* length is never negative.
C10_PopOnEmpty ==
    /\ [](rb.length >= 0)
    /\ [][(nPop' = nPop + 1 /\ rb.length = 0) =>
            (lastPop' = Undefined /\ rb' = rb)]_ringVars

C10_Witness ==
    /\ nPop > nPush
    /\ nPush > 0
    /\ lastPop = Undefined
    /\ rb.length = 0
    /\ Len(rb.container) > 0

\* The step is a push() on rb.
PushStep == nPush' = nPush + 1

\* rb as push() sees it after it has dropped the oldest entry of a buffer
\* that holds _maxSize entries and wrapped the pointers.
Wrapped == _wrapPointers(IF rb.length >= _maxSize THEN pop(rb) ELSE rb)

\* C31: a push() adds one slot to the storage when, after wrapping, head
\* equals tail and the ring holds entries or the storage is empty, which is
\* when every slot holds an unconsumed entry; the slot is new and the
\* entries keep their slots' contents.  Every other push() leaves the
\* number of slots as it is and hands out an existing slot.  The storage
\* never has more than 50 slots.
C31_GrowthOnlyWhenFull ==
    /\ [](Len(rb.container) <= _maxSize)
    /\ [][PushStep =>
             \A w \in {Wrapped} :
                 IF w.head = w.tail /\ (w.length > 0 \/ Len(w.container) = 0)
                 THEN /\ w.length = Len(w.container)
                      /\ Len(rb'.container) = Len(rb.container) + 1
                      /\ \A i \in 1..Len(rb.container) :
                             rb'.container[IF i < rb'.pushed THEN i ELSE i + 1]
                                 = rb.container[i]
                 ELSE /\ w.length < Len(w.container)
                      /\ Len(rb'.container) = Len(rb.container)
                      /\ rb'.pushed \in 1..Len(rb.container)]_ringVars

\* The storage grew to 50 slots, entries were pushed beyond that, and the
\* last push() reused a slot.
C31_Witness ==
    /\ nPush = _maxSize + 2
    /\ nPop = 0
    /\ Len(rb.container) = _maxSize
    /\ rb.pushed = 1

\* C32: with n physical slots, 0 <= length <= n; with n = 0 head and tail
\* are 0, and otherwise head and tail are at most n and head is congruent to
\* tail + length modulo n, which also holds of the wrapped pointers.
C32_PointersConsistent ==
    \A n \in {Len(rb.container)} :
        /\ rb.length >= 0
        /\ rb.length <= n
        /\ rb.head \in 0..n
        /\ rb.tail \in 0..n
        /\ n > 0 =>
               /\ rb.head % n = (rb.tail + rb.length) % n
               /\ _wrapPointers(rb).head % n
                      = (_wrapPointers(rb).tail + rb.length) % n

\* An entry was evicted from a buffer whose storage had grown to 50 slots,
\* and entries were popped after head had wrapped round.
C32_Witness ==
    /\ evicted
    /\ Len(rb.container) = _maxSize
    /\ nPop >= 2
    /\ rb.head = 1
    /\ rb.tail >= 3
    /\ rb.length = _maxSize - 2

\* The physical slots (1-based) of the unconsumed entries of b, oldest
\* first.
SlotsInUse(b) ==
    LET w == _wrapPointers(b)
        n == Len(b.container)
    IN  [i \in 1..b.length |-> ((w.tail + i - 1) % n) + 1]

\* C33: the slot that push() hands out is the slot of the newest entry and
\* of no other unconsumed entry, and writing to it leaves the entries that
\* were unconsumed before the push(), the evicted one apart, with the
\* contents they had.
C33_PushedIsFreeSlot ==
    [][PushStep =>
         \A before \in {PopAll(IF rb.length >= _maxSize THEN pop(rb) ELSE rb)} :
         \A slots \in {SlotsInUse(rb')} :
             /\ Len(slots) = Len(before) + 1
             /\ slots[Len(slots)] = rb'.pushed
             /\ \A i \in 1..Len(before) :
                    /\ slots[i] # rb'.pushed
                    /\ rb'.container[slots[i]] = before[i]
             /\ Labels(PopAll(rb')) = Append(Labels(before), nPush + 1)]_ringVars

\* A push() reused a slot freed by pop() while older entries were waiting
\* in the slots after it.
C33_Witness ==
    /\ ~evicted
    /\ nPop >= 1
    /\ rb.length >= 3
    /\ rb.pushed = 1
    /\ rb.tail >= 1
    /\ Len(rb.container) = rb.length

====
